---- MODULE Spec2Model ----
(***************************************************************************)
(* A model of whattime.py: the zone identifier resolver                    *)
(* (TimezoneHandler.find_timezone) and the temporal expression resolver    *)
(* (TimeParser.parse_time).                                                *)
(*                                                                         *)
(* Text is a sequence of one-character strings, so that strip, upper,      *)
(* lower and the regular expressions are computed, not assumed.            *)
(***************************************************************************)
EXTENDS Integers, Sequences, FiniteSets, TLC

(***************************************************************************)
(* Text helpers: str.strip, str.upper, str.lower                           *)
(***************************************************************************)
LowerLetters ==
    <<"a", "b", "c", "d", "e", "f", "g", "h", "i", "j", "k", "l", "m",
      "n", "o", "p", "q", "r", "s", "t", "u", "v", "w", "x", "y", "z">>

UpperLetters ==
    <<"A", "B", "C", "D", "E", "F", "G", "H", "I", "J", "K", "L", "M",
      "N", "O", "P", "Q", "R", "S", "T", "U", "V", "W", "X", "Y", "Z">>

DigitChars == <<"0", "1", "2", "3", "4", "5", "6", "7", "8", "9">>

\* 0 when c is not in seq, else the index holding c (seq has no repeats)
IndexOf(c, seq) ==
    IF \E i \in 1..Len(seq) : seq[i] = c
    THEN CHOOSE i \in 1..Len(seq) : seq[i] = c
    ELSE 0

IsSpace(c) == c \in {" ", "\t", "\n"}

IsDigit(c) == IndexOf(c, DigitChars) > 0

IsLetter(c) == IndexOf(c, LowerLetters) > 0 \/ IndexOf(c, UpperLetters) > 0

UpperChar(c) ==
    LET i == IndexOf(c, LowerLetters) IN IF i > 0 THEN UpperLetters[i] ELSE c

LowerChar(c) ==
    LET i == IndexOf(c, UpperLetters) IN IF i > 0 THEN LowerLetters[i] ELSE c

Upper(s) == [i \in 1..Len(s) |-> UpperChar(s[i])]

Lower(s) == [i \in 1..Len(s) |-> LowerChar(s[i])]

SetMin(S) == CHOOSE x \in S : \A y \in S : x <= y

SetMax(S) == CHOOSE x \in S : \A y \in S : x >= y

Strip(s) ==
    LET keep == {i \in 1..Len(s) : ~IsSpace(s[i])}
    IN  IF keep = {} THEN <<>> ELSE SubSeq(s, SetMin(keep), SetMax(keep))

\* Python's None; no text equals it, since text holds one-character strings
NoneVal == <<"None">>

(***************************************************************************)
(* The alias table and the zone catalog                                    *)
(***************************************************************************)
s_EST == <<"E", "S", "T">>
s_EDT == <<"E", "D", "T">>
s_CST == <<"C", "S", "T">>
s_CDT == <<"C", "D", "T">>
s_MST == <<"M", "S", "T">>
s_MDT == <<"M", "D", "T">>
s_PST == <<"P", "S", "T">>
s_PDT == <<"P", "D", "T">>
s_GMT == <<"G", "M", "T">>
s_BST == <<"B", "S", "T">>
s_CET == <<"C", "E", "T">>
s_CEST == <<"C", "E", "S", "T">>
s_JST == <<"J", "S", "T">>
s_AEST == <<"A", "E", "S", "T">>
s_AEDT == <<"A", "E", "D", "T">>
s_UTC == <<"U", "T", "C">>
s_America_New_York ==
    <<"A", "m", "e", "r", "i", "c", "a", "/", "N", "e", "w", "_", "Y", "o", "r", "k">>
s_America_Chicago ==
    <<"A", "m", "e", "r", "i", "c", "a", "/", "C", "h", "i", "c", "a", "g", "o">>
s_America_Denver ==
    <<"A", "m", "e", "r", "i", "c", "a", "/", "D", "e", "n", "v", "e", "r">>
s_America_Los_Angeles ==
    <<"A", "m", "e", "r", "i", "c", "a", "/", "L", "o", "s", "_", "A", "n", "g", "e", "l", "e", "s">>
s_Europe_London ==
    <<"E", "u", "r", "o", "p", "e", "/", "L", "o", "n", "d", "o", "n">>
s_Europe_Paris ==
    <<"E", "u", "r", "o", "p", "e", "/", "P", "a", "r", "i", "s">>
s_Asia_Tokyo == <<"A", "s", "i", "a", "/", "T", "o", "k", "y", "o">>
s_Australia_Sydney ==
    <<"A", "u", "s", "t", "r", "a", "l", "i", "a", "/", "S", "y", "d", "n", "e", "y">>

\* the dict, as its (key, value) pairs in insertion order
COMMON_TIMEZONE_MAPPINGS ==
    << <<s_EST, s_America_New_York>>,
       <<s_EDT, s_America_New_York>>,
       <<s_CST, s_America_Chicago>>,
       <<s_CDT, s_America_Chicago>>,
       <<s_MST, s_America_Denver>>,
       <<s_MDT, s_America_Denver>>,
       <<s_PST, s_America_Los_Angeles>>,
       <<s_PDT, s_America_Los_Angeles>>,
       <<s_GMT, s_Europe_London>>,
       <<s_BST, s_Europe_London>>,
       <<s_CET, s_Europe_Paris>>,
       <<s_CEST, s_Europe_Paris>>,
       <<s_JST, s_Asia_Tokyo>>,
       <<s_AEST, s_Australia_Sydney>>,
       <<s_AEDT, s_Australia_Sydney>> >>

\* COMMON_TIMEZONE_MAPPINGS.keys(), in iteration order
AliasKeys == [i \in 1..Len(COMMON_TIMEZONE_MAPPINGS) |-> COMMON_TIMEZONE_MAPPINGS[i][1]]

AliasKeySet == {AliasKeys[i] : i \in 1..Len(AliasKeys)}

\* COMMON_TIMEZONE_MAPPINGS[k], for a key k
AliasLookup(k) == COMMON_TIMEZONE_MAPPINGS[IndexOf(k, AliasKeys)][2]

\* pytz.all_timezones, in its (sorted) order: the entries the alias table
\* maps to, and the all-uppercase identifiers of the tz database
all_timezones ==
    << s_America_Chicago, s_America_Denver, s_America_Los_Angeles,
       s_America_New_York, s_Asia_Tokyo, s_Australia_Sydney, s_CET, s_EST,
       s_Europe_London, s_Europe_Paris, s_GMT, s_MST, s_UTC >>

CatalogSet == {all_timezones[i] : i \in 1..Len(all_timezones)}

(***************************************************************************)
(* fuzzywuzzy.process: the scorer is the library's; extractOne and extract *)
(* select by score as the library documents                                *)
(***************************************************************************)
\* utils.full_process: non-word characters to spaces, lowercase, strip
FullProcess(s) ==
    Strip([i \in 1..Len(s) |->
             IF IsLetter(s[i]) \/ IsDigit(s[i]) \/ s[i] = "_"
             THEN LowerChar(s[i]) ELSE " "])

\* the scores a scorer gives besides 0 and 100
ScoreLevels == {84, 85}

\* the strings a scorer is asked about
Candidates == AliasKeys \o SelectSeq(all_timezones, LAMBDA z : z \notin AliasKeySet)

\* a scorer is the library's function of (query, choice); here any function
\* that gives up to two choices a score of ScoreLevels and the rest 0
ScorerParams ==
    {<<Candidates[i1], l1, Candidates[i2], l2>> :
        <<i1, i2>> \in {p \in (1..Len(Candidates)) \X (1..Len(Candidates)) : p[1] <= p[2]},
        <<l1, l2>> \in ScoreLevels \X ScoreLevels}

ProcessedAliasKeys == [i \in 1..Len(AliasKeys) |-> FullProcess(AliasKeys[i])]

ProcessedCatalog == [i \in 1..Len(all_timezones) |-> FullProcess(all_timezones[i])]

\* the scores of the choices for the processed query pq: 0 for an empty
\* query, 100 for equal processed strings, else as the scorer sc says
Scores(sc, pq, choices, pchoices) ==
    [i \in 1..Len(choices) |->
        IF pq = <<>> THEN 0
        ELSE IF pq = pchoices[i] THEN 100
        ELSE IF choices[i] = sc[1] THEN sc[2]
        ELSE IF choices[i] = sc[3] THEN sc[4]
        ELSE 0]

\* position of choice i in the list sorted by score, best first, ties in
\* the order of the choices (heapq.nlargest is stable)
RankOf(scores, i) ==
    Cardinality({j \in 1..Len(scores) :
        \/ scores[j] > scores[i]
        \/ scores[j] = scores[i] /\ j < i})

\* process.extract(query, choices, limit): the (choice, score) pairs, best
\* first; scores are the scorer's for the query
Extract(scores, choices, limit) ==
    LET n == IF Len(choices) < limit THEN Len(choices) ELSE limit
        rank == [i \in 1..Len(choices) |-> RankOf(scores, i)]
    IN  [r \in 1..n |->
            LET i == CHOOSE k \in 1..Len(choices) : rank[k] = r - 1
            IN  <<choices[i], scores[i]>>]

\* extractOne keeping only the scores above the cutoff
ExtractOneAbove(scores, choices, cutoff) ==
    LET ok == {i \in 1..Len(choices) : scores[i] > cutoff}
    IN  IF ok = {} THEN NoneVal
        ELSE LET best == CHOOSE i \in ok :
                     \A j \in ok : scores[j] < scores[i] \/ (scores[j] = scores[i] /\ i <= j)
             IN  <<choices[best], scores[best]>>

\* process.extractOne(query, choices, score_cutoff): the first best pair
\* among those scoring at least the cutoff, or None
ExtractOne(scores, choices, cutoff) ==
    LET ok == {i \in 1..Len(choices) : scores[i] >= cutoff}
    IN  IF ok = {} THEN NoneVal
        ELSE LET best == CHOOSE i \in ok :
                     \A j \in ok : scores[j] < scores[i] \/ (scores[j] = scores[i] /\ i <= j)
             IN  <<choices[best], scores[best]>>

(***************************************************************************)
(* TimezoneHandler.find_timezone                                           *)
(***************************************************************************)
\* what a call or a worker task ends with
Return(v, path) == [kind |-> "return", val |-> v, path |-> path]

Raise(path) == [kind |-> "raise", val |-> <<>>, path |-> path]

Pending == [kind |-> "pending", val |-> <<>>, path |-> "none"]

FUZZY_CUTOFF == 85

\* a limit of five suggestions
FuzzyLimitFive == 3 + 2

FUZZY_LIMIT == 3

\* normalization that forgets upper()
NormalizeZoneInputNoUpper(x) == Strip(x)

\* user_input.strip().upper(); None has no strip(): AttributeError
NormalizeZoneInput(x) == Upper(Strip(x))

\* the names of a list of (choice, score) pairs
NamesOf(matches) == [i \in 1..Len(matches) |-> matches[i][1]]

\* the fuzzy alias lookup returning the alias itself, not its zone
AliasFuzzyKey(common_match) == <<common_match[1], <<>>>>

\* the value the fuzzy alias lookup returns for a hit
AliasFuzzyValue(common_match) == <<AliasLookup(common_match[1]), <<>>>>

\* the worker function do_fuzzy_match; user_input enters through the scores
\* the scorer gives it against the alias keys and against the catalog
do_fuzzy_match(aliasScores, catalogScores) ==
    LET common_match == ExtractOne(aliasScores, AliasKeys, FUZZY_CUTOFF)
        matches == Extract(catalogScores, all_timezones, FUZZY_LIMIT)
    IN  IF common_match # NoneVal
        THEN Return(AliasFuzzyValue(common_match), "alias_fuzzy")
        ELSE IF Len(matches) > 0 /\ matches[1][2] >= FUZZY_CUTOFF
        THEN Return(<<matches[1][1], NamesOf(Tail(matches))>>, "catalog_fuzzy")
        ELSE Return(<<NoneVal, NamesOf(matches)>>, "no_match")

\* find_timezone without its except clause
FindTimezoneReRaise == Raise("error")

\* the except clause of find_timezone
FindTimezoneExcept == Return(<<NoneVal, <<>>>>, "error")

\* find_timezone with the catalog looked up before the alias table
FindTimezoneSyncCatalogFirst(x) ==
    IF x = NoneVal THEN FindTimezoneExcept
    ELSE LET u == NormalizeZoneInput(x)
         IN  IF u \in CatalogSet THEN Return(<<u, <<>>>>, "catalog_exact")
             ELSE IF u \in AliasKeySet THEN Return(<<AliasLookup(u), <<>>>>, "alias_exact")
             ELSE [kind |-> "await", val |-> <<>>, path |-> "none"]

\* find_timezone that looks up the alias table only before it dispatches
FindTimezoneSyncAliasOnly(x) ==
    IF x = NoneVal THEN FindTimezoneExcept
    ELSE LET u == NormalizeZoneInput(x)
         IN  IF u \in AliasKeySet THEN Return(<<AliasLookup(u), <<>>>>, "alias_exact")
             ELSE [kind |-> "await", val |-> <<>>, path |-> "none"]

\* find_timezone up to its await: the result, or "await" when the fuzzy
\* matching is dispatched to the executor
FindTimezoneSync(x) ==
    IF x = NoneVal THEN FindTimezoneExcept
    ELSE LET u == NormalizeZoneInput(x)
         IN  IF u \in AliasKeySet THEN Return(<<AliasLookup(u), <<>>>>, "alias_exact")
             ELSE IF u \in CatalogSet THEN Return(<<u, <<>>>>, "catalog_exact")
             ELSE [kind |-> "await", val |-> <<>>, path |-> "none"]

(***************************************************************************)
(* Dates and times. An instant is counted in seconds; a datetime holds its *)
(* wall-clock reading (seconds since the start of the first modelled year) *)
(* with the UTC offset and the zone of its tzinfo. Daylight saving is not  *)
(* modelled: a zone has one offset.                                        *)
(***************************************************************************)
Years == 2026..2028

IsLeap(y) == (y % 4 = 0 /\ y % 100 # 0) \/ y % 400 = 0

DaysInYear(y) == IF IsLeap(y) THEN 366 ELSE 365

DaysInMonth(y, m) ==
    IF m = 2 THEN (IF IsLeap(y) THEN 29 ELSE 28)
    ELSE IF m \in {4, 6, 9, 11} THEN 30 ELSE 31

\* days from the start of the first modelled year to the start of year y
DaysBeforeYear[y \in Years] ==
    IF y = SetMin(Years) THEN 0 ELSE DaysBeforeYear[y - 1] + DaysInYear(y - 1)

\* days from the start of year y to the start of its month m
DaysBeforeMonth[ym \in Years \X (1..12)] ==
    IF ym[2] = 1 THEN 0
    ELSE DaysBeforeMonth[<<ym[1], ym[2] - 1>>] + DaysInMonth(ym[1], ym[2] - 1)

DayNumber(y, m, d) == DaysBeforeYear[y] + DaysBeforeMonth[<<y, m>>] + (d - 1)

SecondsPerDay == 24 * 3600

\* the fields of a wall-clock reading w
DayOfWall(w) == w \div SecondsPerDay

YearOf(w) ==
    CHOOSE y \in Years :
        /\ DaysBeforeYear[y] <= DayOfWall(w)
        /\ DayOfWall(w) < DaysBeforeYear[y] + DaysInYear(y)

MonthOf(w) ==
    LET y == YearOf(w)
        n == DayOfWall(w) - DaysBeforeYear[y]
    IN  CHOOSE m \in 1..12 :
            /\ DaysBeforeMonth[<<y, m>>] <= n
            /\ n < DaysBeforeMonth[<<y, m>>] + DaysInMonth(y, m)

DayOf(w) ==
    LET y == YearOf(w)
    IN  DayOfWall(w) - DaysBeforeYear[y] - DaysBeforeMonth[<<y, MonthOf(w)>>] + 1

HourOf(w) == (w % SecondsPerDay) \div 3600

MinuteOf(w) == (w % 3600) \div 60

SecondOf(w) == w % 60

\* a datetime, and None in the same shape
Datetime(w, off, tz) == [some |-> TRUE, wall |-> w, off |-> off, tz |-> tz]

NoDatetime == [some |-> FALSE, wall |-> 0, off |-> 0, tz |-> NoneVal]

\* a naive datetime: wall-clock fields and no tzinfo
NaiveDatetime(w) == [some |-> TRUE, wall |-> w, off |-> 0, tz |-> NoneVal]

\* whether a datetime carries a tzinfo
IsAware(dt) == dt.some /\ dt.tz # NoneVal

\* the instant of an aware datetime, in UTC seconds
UtcOf(dt) == dt.wall - dt.off

\* the zones pytz.timezone knows here, with their standard UTC offset
KnownZones == {s_UTC, s_Asia_Tokyo}

UtcOffset(z) == IF z = s_Asia_Tokyo THEN 9 * 3600 ELSE 0

\* the offset of the tzinfo object pytz.timezone(z) itself, which
\* datetime.replace(tzinfo=tz) attaches: the zone's first (local mean time)
\* offset, +9:19 for Asia/Tokyo
TzinfoOffset(z) == IF z = s_Asia_Tokyo THEN 9 * 3600 + 19 * 60 ELSE 0

\* replace(tzinfo=tz) left out: the datetime stays as it is
ReplaceTzinfoSkipped(dt, z) == dt

\* dt.replace(tzinfo=pytz.timezone(z)): the fields stay, the tzinfo is set
ReplaceTzinfo(dt, z) == [dt EXCEPT !.off = TzinfoOffset(z), !.tz = z]

\* datetime.now(tz), the clock reading clk in UTC seconds
NowIn(z, clk) == Datetime(clk + UtcOffset(z), UtcOffset(z), z)

\* dt.replace(hour=h, minute=m, second=0, microsecond=0); the caller has
\* checked 0 <= h <= 23 and 0 <= m <= 59 (else ValueError)
ReplaceTime(dt, h, m) ==
    [dt EXCEPT !.wall = DayOfWall(dt.wall) * SecondsPerDay + h * 3600 + m * 60]

\* dt + timedelta(seconds=n)
PlusSeconds(dt, n) == [dt EXCEPT !.wall = dt.wall + n]

\* dt.astimezone(pytz.UTC)
AsUtc(dt) == Datetime(UtcOf(dt), 0, s_UTC)

(***************************************************************************)
(* The regular expressions of TimeParser and the text operations of        *)
(* parse_time                                                              *)
(***************************************************************************)
s_am == <<"a", "m">>

s_pm == <<"p", "m">>

Meridians == {s_am, s_pm}

AllDigits(s) == \A i \in 1..Len(s) : IsDigit(s[i])

\* int(s), for a text of digits
RECURSIVE IntOf(_)
IntOf(s) ==
    IF s = <<>> THEN 0
    ELSE IntOf(SubSeq(s, 1, Len(s) - 1)) * 10 + (IndexOf(s[Len(s)], DigitChars) - 1)

\* s without its leading whitespace (a leading \s*)
LStrip(s) ==
    LET keep == {i \in 1..Len(s) : ~IsSpace(s[i])}
    IN  IF keep = {} THEN <<>> ELSE SubSeq(s, SetMin(keep), Len(s))

\* the number of digits s starts with
LeadingDigits(s) == SetMax({k \in 0..Len(s) : AllDigits(SubSeq(s, 1, k))})

\* whether w occurs in s at position i
OccursAt(s, i, w) == i + Len(w) - 1 <= Len(s) /\ SubSeq(s, i, i + Len(w) - 1) = w

\* w in s
Contains(s, w) == \E i \in 1..Len(s) : OccursAt(s, i, w)

\* re.sub(r'\s+', ' ', s)
RECURSIVE CollapseSpaces(_)
CollapseSpaces(s) ==
    IF s = <<>> THEN <<>>
    ELSE IF IsSpace(s[1])
    THEN <<" ">> \o CollapseSpaces(LStrip(s))
    ELSE <<s[1]>> \o CollapseSpaces(Tail(s))

\* s.replace(w, ''), for a non-empty w
RECURSIVE RemoveAll(_, _)
RemoveAll(s, w) ==
    IF s = <<>> THEN <<>>
    ELSE IF OccursAt(s, 1, w) THEN RemoveAll(SubSeq(s, Len(w) + 1, Len(s)), w)
    ELSE <<s[1]>> \o RemoveAll(Tail(s), w)

\* normalization that forgets lower()
NormalizeTimeInputNoLower(x) == CollapseSpaces(Strip(x))

\* re.sub(r'\s+', ' ', input_text.strip().lower())
NormalizeTimeInput(x) == CollapseSpaces(Lower(Strip(x)))

\* simple_hour_pattern  ^(\d{1,2})\s*(am|pm)$ : the groups (hour, meridian),
\* or <<>> for no match
SimpleHourMatch(s) ==
    LET ks == {k \in 1..2 :
                  /\ k <= Len(s)
                  /\ AllDigits(SubSeq(s, 1, k))
                  /\ LStrip(SubSeq(s, k + 1, Len(s))) \in Meridians}
    IN  IF ks = {} THEN <<>>
        ELSE LET k == SetMax(ks)
             IN  <<SubSeq(s, 1, k), LStrip(SubSeq(s, k + 1, Len(s)))>>

\* time_pattern  ^(\d{1,2}):(\d{2})(?:\s*(am|pm))?$ : the groups (hour,
\* minute, meridian or None), or <<>> for no match
TimeMatch(s) ==
    LET ks == {k \in 1..2 :
                  /\ k + 3 <= Len(s)
                  /\ AllDigits(SubSeq(s, 1, k))
                  /\ s[k + 1] = ":"
                  /\ AllDigits(SubSeq(s, k + 2, k + 3))
                  /\ \/ Len(s) = k + 3
                     \/ LStrip(SubSeq(s, k + 4, Len(s))) \in Meridians}
    IN  IF ks = {} THEN <<>>
        ELSE LET k == SetMax(ks)
             IN  <<SubSeq(s, 1, k), SubSeq(s, k + 2, k + 3),
                   IF Len(s) = k + 3 THEN NoneVal ELSE LStrip(SubSeq(s, k + 4, Len(s)))>>

s_in == <<"i", "n">>

s_hour == <<"h", "o", "u", "r">>

s_hr == <<"h", "r">>

s_minute == <<"m", "i", "n", "u", "t", "e">>

s_min == <<"m", "i", "n">>

RelativeUnits == {s_hour, s_hr, s_minute, s_min}

\* relative_pattern  ^in\s+(\d+)\s*(hour|hr|minute|min)s?$ : the groups
\* (amount, unit), or <<>> for no match
RelativeMatch(s) ==
    IF ~(Len(s) >= 3 /\ SubSeq(s, 1, 2) = s_in /\ IsSpace(s[3])) THEN <<>>
    ELSE LET rest == LStrip(SubSeq(s, 3, Len(s)))
             nd == LeadingDigits(rest)
             tail == LStrip(SubSeq(rest, nd + 1, Len(rest)))
             unit == IF tail \in RelativeUnits THEN tail
                     ELSE IF /\ Len(tail) > 1
                             /\ tail[Len(tail)] = "s"
                             /\ SubSeq(tail, 1, Len(tail) - 1) \in RelativeUnits
                     THEN SubSeq(tail, 1, Len(tail) - 1)
                     ELSE <<>>
         IN  IF nd = 0 \/ unit = <<>> THEN <<>> ELSE <<SubSeq(rest, 1, nd), unit>>

MonthNames ==
    << <<"j", "a", "n", "u", "a", "r", "y">>,
       <<"f", "e", "b", "r", "u", "a", "r", "y">>,
       <<"m", "a", "r", "c", "h">>,
       <<"a", "p", "r", "i", "l">>,
       <<"m", "a", "y">>,
       <<"j", "u", "n", "e">>,
       <<"j", "u", "l", "y">>,
       <<"a", "u", "g", "u", "s", "t">>,
       <<"s", "e", "p", "t", "e", "m", "b", "e", "r">>,
       <<"o", "c", "t", "o", "b", "e", "r">>,
       <<"n", "o", "v", "e", "m", "b", "e", "r">>,
       <<"d", "e", "c", "e", "m", "b", "e", "r">> >>

DateIndicatorWords ==
    << <<"t", "o", "m", "o", "r", "r", "o", "w">>,
       <<"t", "o", "d", "a", "y">>,
       <<"n", "e", "x", "t">>,
       <<"t", "u", "e", "s", "d", "a", "y">>,
       <<"w", "e", "d", "n", "e", "s", "d", "a", "y">>,
       <<"t", "h", "u", "r", "s", "d", "a", "y">>,
       <<"f", "r", "i", "d", "a", "y">>,
       <<"s", "a", "t", "u", "r", "d", "a", "y">>,
       <<"s", "u", "n", "d", "a", "y">>,
       <<"m", "o", "n", "d", "a", "y">>,
       <<"y", "e", "s", "t", "e", "r", "d", "a", "y">>,
       <<"w", "e", "e", "k">>,
       <<"m", "o", "n", "t", "h">>,
       <<"t", "m", "r">>,
       <<"t", "m", "r", "w">> >>

t_now == <<"n", "o", "w">>
t_NOW == <<"N", "O", "W">>
t_3pm == <<"3", "p", "m">>
t_3PM == <<" ", "3", "P", "M", " ">>
t_3am == <<"3", "a", "m">>
t_1am == <<"1", "a", "m">>
t_12am == <<"1", "2", "a", "m">>
t_12pm == <<"1", "2", "p", "m">>
t_13pm == <<"1", "3", "p", "m">>
t_25pm == <<"2", "5", "p", "m">>
t_15_00 == <<"1", "5", ":", "0", "0">>
t_3_30_pm == <<"3", ":", "3", "0", " ", "p", "m">>
t_0_05 == <<"0", ":", "0", "5">>
t_10_75 == <<"1", "0", ":", "7", "5">>
t_25_00 == <<"2", "5", ":", "0", "0">>
t_in_2_hours == <<"i", "n", " ", "2", " ", "h", "o", "u", "r", "s">>
t_In__2_Hours == <<"I", "n", " ", " ", " ", "2", " ", " ", "H", "o", "u", "r", "s">>
t_in_30_min == <<"i", "n", " ", "3", "0", " ", "m", "i", "n">>
t_in_90_mins == <<"i", "n", " ", "9", "0", " ", "m", "i", "n", "s">>
t_march_30 == <<"m", "a", "r", "c", "h", " ", "3", "0">>
t_march_30_3pm == <<"m", "a", "r", "c", "h", " ", "3", "0", " ", "3", "p", "m">>
t_march_30_2027 == <<"m", "a", "r", "c", "h", " ", "3", "0", " ", "2", "0", "2", "7">>
t_february_30 == <<"f", "e", "b", "r", "u", "a", "r", "y", " ", "3", "0">>
t_december_31_23_59 == <<"d", "e", "c", "e", "m", "b", "e", "r", " ", "3", "1", " ", "2", "3", ":", "5", "9">>
t_not_a_time == <<"n", "o", "t", " ", "a", " ", "t", "i", "m", "e">>
t_tomorrow_3pm == <<"t", "o", "m", "o", "r", "r", "o", "w", " ", "3", "p", "m">>
t_noon == <<"n", "o", "o", "n">>
t_in_2_days == <<"i", "n", " ", "2", " ", "d", "a", "y", "s">>
t_NOON == <<"N", "o", "O", "n", " ">>
t_today_noon == <<"t", "o", "d", "a", "y", " ", "n", "o", "o", "n">>
t_in_99999999_hours ==
    <<"i", "n", " ", "9", "9", "9", "9", "9", "9", "9", "9", " ", "h", "o", "u", "r", "s">>

\* month_day_pattern.search(s), for
\* (january|...|december)\s+(\d{1,2}) : the leftmost match, with its month
\* number, its day text and the matched text
MonthDayAfter(s, i, m, rest) ==
    LET sp == Len(SubSeq(s, i + Len(MonthNames[m]), Len(s))) - Len(rest)
        nd == LeadingDigits(rest)
        n == IF nd > 2 THEN 2 ELSE nd
    IN  IF sp = 0 \/ n = 0
        THEN [found |-> FALSE, month |-> 0, day |-> <<>>, group |-> <<>>]
        ELSE [found |-> TRUE, month |-> m,
              day |-> SubSeq(rest, 1, n),
              group |-> SubSeq(s, i, i + Len(MonthNames[m]) + sp + n - 1)]

MonthDayAt(s, i) ==
    LET ms == {m \in 1..12 : OccursAt(s, i, MonthNames[m])}
    IN  IF ms = {} THEN [found |-> FALSE, month |-> 0, day |-> <<>>, group |-> <<>>]
        ELSE MonthDayAfter(s, i, CHOOSE k \in ms : TRUE,
                           LStrip(SubSeq(s, i + Len(MonthNames[CHOOSE k \in ms : TRUE]), Len(s))))

MonthDaySearch(s) ==
    LET at == {i \in 1..Len(s) : MonthDayAt(s, i).found}
    IN  IF at = {} THEN [found |-> FALSE, month |-> 0, day |-> <<>>, group |-> <<>>]
        ELSE MonthDayAt(s, SetMin(at))

(***************************************************************************)
(* TimeParser.parse_time                                                   *)
(***************************************************************************)
\* the hour of day of an hour with its am/pm (None: no meridian)
HourOn24(hour, meridian) ==
    IF meridian = s_pm /\ hour < 12 THEN hour + 12
    ELSE IF meridian = s_am /\ hour = 12 THEN 0
    ELSE hour

\* Rollover with the test time_diff >= timedelta(hours=12)
RolloverFromTwelve(result, now) ==
    IF UtcOf(result) < UtcOf(now) /\ UtcOf(now) - UtcOf(result) >= 12 * 3600
    THEN PlusSeconds(result, SecondsPerDay)
    ELSE result

\* Rollover without the 12 hour test: every passed time moves to tomorrow
RolloverWhenPassed(result, now) ==
    IF UtcOf(result) < UtcOf(now) THEN PlusSeconds(result, SecondsPerDay) ELSE result

\* no rollover: a time of day stays on today's date
RolloverNever(result, now) == result

\* a time of day that has passed moves to tomorrow only when it passed more
\* than 12 hours ago
Rollover(result, now) ==
    IF UtcOf(result) < UtcOf(now) /\ UtcOf(now) - UtcOf(result) > 12 * 3600
    THEN PlusSeconds(result, SecondsPerDay)
    ELSE result

\* parse_time without its except clause: the exception reaches the caller
ParseTimeReRaise == [kind |-> "raise", val |-> NoDatetime, path |-> "error"]

\* the except clause of parse_time
ParseTimeExcept == Return(NoDatetime, "error")

\* a stage that did not return
FallThrough == [kind |-> "fallthrough", val |-> NoDatetime, path |-> "none"]

\* the simple hour stage, for the groups g of simple_hour_pattern;
\* now.replace raises ValueError for an hour above 23
SimpleHourStage(now, g) ==
    LET hour == HourOn24(IntOf(g[1]), g[2])
    IN  IF hour > 23 THEN ParseTimeExcept
        ELSE Return(Rollover(ReplaceTime(now, hour, 0), now), "simple_hour")

\* the HH:MM stage, for the groups g of time_pattern
ClockStage(now, g) ==
    LET hour == HourOn24(IntOf(g[1]), g[3])
        minute == IntOf(g[2])
    IN  IF 0 <= hour /\ hour <= 23 /\ 0 <= minute /\ minute <= 59
        THEN Return(Rollover(ReplaceTime(now, hour, minute), now), "clock")
        ELSE FallThrough

\* the hours from the start of the first modelled year to the end of year
\* 9999, where datetime ends: 2912443 days
HoursToDatetimeMax == 2912443 * 24

\* whether now + timedelta(hours=h, minutes=m), m < 60, is a datetime; past
\* year 9999 the addition raises OverflowError
InDatetimeRange(now, h, m) ==
    h <= HoursToDatetimeMax - 1 - ((now.wall + m * 60) \div 3600)

\* the relative stage taking every unit for hours
RelativeStageAllHours(now, g) ==
    IF InDatetimeRange(now, IntOf(g[1]), 0)
    THEN Return(PlusSeconds(now, IntOf(g[1]) * 3600), "relative")
    ELSE ParseTimeExcept

\* the relative stage, for the groups g of relative_pattern
RelativeStage(now, g) ==
    LET amount == IntOf(g[1])
    IN  IF g[2] \in {s_hour, s_hr}
        THEN IF InDatetimeRange(now, amount, 0)
             THEN Return(PlusSeconds(now, amount * 3600), "relative")
             ELSE ParseTimeExcept
        ELSE IF InDatetimeRange(now, amount \div 60, amount % 60)
             THEN Return(PlusSeconds(now, amount * 60), "relative")
             ELSE ParseTimeExcept

\* the year test with <= for the day: today's date moves to next year
MonthDayYearTodayPassed(month, day, now) ==
    IF \/ month < MonthOf(now.wall)
       \/ month = MonthOf(now.wall) /\ day <= DayOf(now.wall)
    THEN YearOf(now.wall) + 1
    ELSE YearOf(now.wall)

\* the year of a month and day given without one: next year when the date
\* has passed this year
MonthDayYear(month, day, now) ==
    IF \/ month < MonthOf(now.wall)
       \/ month = MonthOf(now.wall) /\ day < DayOf(now.wall)
    THEN YearOf(now.wall) + 1
    ELSE YearOf(now.wall)

\* the month and day stage, for the match md of month_day_pattern;
\* datetime(...) raises ValueError for a day the month does not have or a
\* time out of range, and the stage falls through
MonthDayBuild(md, time_part, tm, sh, now, z) ==
    LET day == IntOf(md.day)
        month == md.month
        hour == IF tm # <<>> THEN HourOn24(IntOf(tm[1]), tm[3])
                ELSE IF sh # <<>> THEN HourOn24(IntOf(sh[1]), sh[2])
                ELSE 0
        minute == IF tm # <<>> THEN IntOf(tm[2]) ELSE 0
        year == MonthDayYear(month, day, now)
    IN  IF /\ 1 <= day /\ day <= DaysInMonth(year, month)
           /\ hour <= 23 /\ minute <= 59
        THEN Return(ReplaceTzinfo(NaiveDatetime(DayNumber(year, month, day) * SecondsPerDay
                                                    + hour * 3600 + minute * 60),
                                  z),
                    "month_day")
        ELSE FallThrough

\* the time of day is matched in what is left of the text without the match
MonthDayTimed(md, time_part, now, z) ==
    MonthDayBuild(md, time_part, TimeMatch(time_part), SimpleHourMatch(time_part), now, z)

MonthDayFound(md, text, now, z) ==
    IF ~md.found THEN FallThrough
    ELSE MonthDayTimed(md, Strip(RemoveAll(text, md.group)), now, z)

MonthDayStage(text, now, z) == MonthDayFound(MonthDaySearch(text), text, now, z)

\* after the month and day stage: its result, or the dispatch of the
\* fallback parser to the executor
ParseTimeMonthDay(month_day) ==
    IF month_day.kind = "return" THEN month_day
    ELSE [kind |-> "await", val |-> NoDatetime, path |-> "none"]

\* the cascade of parse_time, for the normalized text and the local now:
\* the result, or "await" when the fallback parser is dispatched
ParseTimeStages(text, now, z, sh, clock_stage, rel) ==
    IF text = t_now THEN Return(now, "now")
    ELSE IF sh # <<>> THEN SimpleHourStage(now, sh)
    ELSE IF clock_stage.kind = "return" THEN clock_stage
    ELSE IF rel # <<>> THEN RelativeStage(now, rel)
    ELSE ParseTimeMonthDay(MonthDayStage(text, now, z))

ParseTimeCascade(text, now, z, tm) ==
    ParseTimeStages(text, now, z, SimpleHourMatch(text),
                    IF tm # <<>> THEN ClockStage(now, tm) ELSE FallThrough,
                    RelativeMatch(text))

\* parse_time up to its await; pytz.timezone raises for an unknown zone
ParseTimeSync(x, z, clk) ==
    IF z \notin KnownZones THEN ParseTimeExcept
    ELSE ParseTimeCascade(NormalizeTimeInput(x), NowIn(z, clk), z,
                          TimeMatch(NormalizeTimeInput(x)))

\* a vocabulary without words: no text holds a date word
HasDateIndicatorNever(text) == FALSE

\* whether the text holds one of the date words
HasDateIndicator(text) ==
    \E i \in 1..Len(DateIndicatorWords) : Contains(text, DateIndicatorWords[i])

\* parse_time after its await, parsed_dt being the fallback parser's answer
ParseTimeAfterFallback(text, now, parsed_dt) ==
    IF ~parsed_dt.some THEN Return(NoDatetime, "unparseable")
    ELSE LET is_different_date ==
                 \/ YearOf(parsed_dt.wall) # YearOf(now.wall)
                 \/ MonthOf(parsed_dt.wall) # MonthOf(now.wall)
                 \/ DayOf(parsed_dt.wall) # DayOf(now.wall)
         IN  IF is_different_date \/ Contains(text, DateIndicatorWords[1])
             THEN Return(AsUtc(parsed_dt), "fallback_dated")
             ELSE IF ~HasDateIndicator(text)
             THEN Return(Rollover(ReplaceTime(now, HourOf(parsed_dt.wall),
                                              MinuteOf(parsed_dt.wall)), now),
                         "fallback_time")
             ELSE Return(AsUtc(parsed_dt), "fallback_dated")

\* what dateparser.parse may answer: nothing, or a datetime in the
\* reference zone, today or tomorrow
FallbackAnswers(now) ==
    LET midnight == DayOfWall(now.wall) * SecondsPerDay
    IN  {NoDatetime}
        \cup {Datetime(midnight + w, now.off, now.tz) :
                w \in {9 * 3600 + 30 * 60 + 15, 21 * 3600 + 15 * 60,
                       SecondsPerDay + 15 * 3600}}

(***************************************************************************)
(* TimeParser.cache and _clean_cache. The cache is a dict in insertion     *)
(* order, from a key (normalized text, reference zone) to a value          *)
(* (instant, timestamp). It is held as a sequence of runs: a run stands    *)
(* for n consecutive entries, with the keys numbered lo .. lo + n - 1, that *)
(* all hold the value (val, ts).                                           *)
(***************************************************************************)
CACHE_LIFETIME == 3600

CACHE_LIMIT == 1000

\* len(self.cache)
RECURSIVE CacheLen(_)
CacheLen(runs) == IF runs = <<>> THEN 0 ELSE runs[1].n + CacheLen(Tail(runs))

\* the expiry test with >=: an entry one hour old is kept
UnexpiredInclusive(v, now) == v.ts + CACHE_LIFETIME >= now

\* v[1] + self._cache_lifetime > now
Unexpired(v, now) == v.ts + CACHE_LIFETIME > now

\* sorted(items, key=lambda x: x[1][1]): by timestamp, entries of equal
\* timestamp in the order they had (sorted is stable)
RECURSIVE InsertByTimestamp(_, _)
InsertByTimestamp(sorted, r) ==
    IF sorted = <<>> THEN <<r>>
    ELSE IF sorted[1].ts <= r.ts
    THEN <<sorted[1]>> \o InsertByTimestamp(Tail(sorted), r)
    ELSE <<r>> \o sorted

RECURSIVE SortedByTimestamp(_)
SortedByTimestamp(runs) ==
    IF runs = <<>> THEN <<>>
    ELSE InsertByTimestamp(SortedByTimestamp(SubSeq(runs, 1, Len(runs) - 1)),
                           runs[Len(runs)])

\* items[-k:], for k > 0: the last k entries
RECURSIVE LastEntries(_, _)
LastEntries(runs, k) ==
    IF runs = <<>> THEN <<>>
    ELSE LET r == runs[Len(runs)]
         IN  IF r.n >= k
             THEN <<[r EXCEPT !.lo = r.lo + (r.n - k), !.n = k]>>
             ELSE LastEntries(SubSeq(runs, 1, Len(runs) - 1), k - r.n) \o <<r>>

\* self.cache after _clean_cache, for the reading now of datetime.now()
_clean_cache(runs, now) ==
    LET live == SelectSeq(runs, LAMBDA v : Unexpired(v, now))
    IN  IF CacheLen(live) > CACHE_LIMIT
        THEN LastEntries(SortedByTimestamp(live), CACHE_LIMIT)
        ELSE live

\* the entries of a cache: (key number, instant, timestamp)
CacheEntries(runs) ==
    UNION {{<<k, runs[i].val, runs[i].ts>> : k \in runs[i].lo..(runs[i].lo + runs[i].n - 1)} :
              i \in 1..Len(runs)}

\* the keys of the entries numbered 1, 2, 3; the entries numbered above
\* have keys no call in this model uses
CacheKeys == << <<t_3pm, s_UTC>>, <<t_now, s_UTC>>, <<t_in_2_hours, s_UTC>> >>

\* the number of the key (text, zone), 0 when no entry can have it
CacheKeyNumber(text, z) ==
    IF \E i \in 1..Len(CacheKeys) : CacheKeys[i] = <<text, z>>
    THEN CHOOSE i \in 1..Len(CacheKeys) : CacheKeys[i] = <<text, z>>
    ELSE 0

(***************************************************************************)
(* The table server_timezones, with PRIMARY KEY (server_id, display_name)  *)
(***************************************************************************)
SERVER_TIMEZONE_LIMIT == 5

\* SELECT timezone ... WHERE server_id = ? AND display_name = ?
SelectExisting(table, server_id, display_name) ==
    {r \in table : r.server_id = server_id /\ r.display_name = display_name}

\* SELECT COUNT(*) ... WHERE server_id = ?
SelectCount(table, server_id) == Cardinality({r \in table : r.server_id = server_id})

\* INSERT OR REPLACE INTO server_timezones (server_id, display_name, timezone)
InsertOrReplace(table, server_id, display_name, timezone) ==
    (table \ SelectExisting(table, server_id, display_name))
        \cup {[server_id |-> server_id, display_name |-> display_name,
               timezone |-> timezone]}

\* DELETE ... WHERE server_id = ? AND display_name = ?
DeleteRow(table, server_id, display_name) ==
    table \ SelectExisting(table, server_id, display_name)

\* DELETE ... WHERE server_id = ?
DeleteServer(table, server_id) == {r \in table : r.server_id # server_id}

(***************************************************************************)
(* The calls made and the clock                                            *)
(***************************************************************************)
\* the texts find_timezone is called with
Padded(s) == <<" ">> \o s \o <<" ", " ">>

ZoneInputs ==
    CatalogSet \cup AliasKeySet
    \cup {Lower(k) : k \in AliasKeySet}
    \cup {Padded(k) : k \in AliasKeySet}
    \cup {Padded(Lower(k)) : k \in AliasKeySet}
    \cup { <<>>, <<"z", "z", "z">>, <<"e", "s", "t", "!">>,
           <<"n", "e", "w", " ", "y", "o", "r", "k">>, NoneVal }

\* the texts parse_time is called with
TimeInputs ==
    { t_now, t_NOW, t_3pm, t_3PM, t_3am, t_1am, t_12am, t_12pm, t_13pm, t_25pm,
      t_15_00, t_3_30_pm, t_0_05, t_10_75, t_25_00,
      t_in_2_hours, t_In__2_Hours, t_in_30_min, t_in_90_mins, t_in_99999999_hours,
      t_march_30, t_march_30_3pm, t_march_30_2027, t_february_30,
      t_december_31_23_59, t_not_a_time, t_tomorrow_3pm, t_noon, t_in_2_days,
      t_NOON, t_today_noon }

\* the reference zones parse_time is called with; the last is no zone
s_Mars == <<"M", "a", "r", "s">>

RefZones == {s_UTC, s_Asia_Tokyo, s_Mars}

\* the clock readings a run starts at, in UTC seconds: 29 March 02:00:00,
\* 30 March 14:55:00 and 31 December 23:59:58 of the first modelled year
StartClocks ==
    { DayNumber(2026, 3, 29) * SecondsPerDay + 2 * 3600,
      DayNumber(2026, 3, 30) * SecondsPerDay + 14 * 3600 + 55 * 60,
      DayNumber(2026, 12, 31) * SecondsPerDay + 23 * 3600 + 59 * 60 + 58 }

\* the clock moves by a second or by five minutes
TickSteps == {1, 300}

\* the number of times the clock moves in a run
MaxTicks == 2

\* the caches a run may start with, as runs (first key number, entries,
\* age in seconds at the start of the run): empty; three entries, one of
\* them exactly an hour old; exactly 1000 entries; 1001 with the newest
\* inserted first; 1003 of which two are expired; 1200 of three ages; 1005
\* of three ages
CacheShapes ==
    { <<>>,
      << <<1, 1, 3600>>, <<2, 1, 3599>>, <<3, 1, 10>> >>,
      << <<1, 1000, 10>> >>,
      << <<1, 1, 10>>, <<2, 1000, 20>> >>,
      << <<1, 500, 5>>, <<501, 2, 3600>>, <<503, 501, 5>> >>,
      << <<1, 400, 100>>, <<401, 400, 50>>, <<801, 400, 3599>> >>,
      << <<1, 3, 10>>, <<4, 1000, 3300>>, <<1004, 2, 0>> >> }

\* the cache of a shape at clock reading clk; each entry holds the instant
\* that was "now" in UTC when it was stored
CacheOfShape(shape, clk) ==
    [i \in 1..Len(shape) |->
        [lo |-> shape[i][1], n |-> shape[i][2],
         val |-> Datetime(clk - shape[i][3], 0, s_UTC), ts |-> clk - shape[i][3]]]

\* the servers, the display names and the zone the table is written with
GuildIds == {1}

DisplayNames == {"a", "b", "c", "d", "e", "f"}

\* the tasks that may run set_server_timezone at the same time
Setters == {1, 2}

\* the users whose timezone is stored
UserIds == {1, 2}

\* the tasks that may run parse_time and find_timezone side by side
Tasks == {1, 2}

VARIABLES
    zpc,      \* where the find_timezone call is: idle, waiting, resuming, done
    zin,      \* its argument user_input
    znorm,    \* user_input after normalization (what do_fuzzy_match closes over)
    zsc,      \* the scorer the worker task ran with
    zwork,    \* what the worker task ended with
    zres,     \* what the call ended with
    clock,    \* the system clock, in UTC seconds
    ticks,    \* how often the clock has moved
    ppc,      \* where the parse_time call is: idle, waiting, resuming, done
    pin,      \* its argument input_text
    pzone,    \* its argument base_timezone
    ptext,    \* input_text after normalization
    pnow,     \* its local now
    pwork,    \* what the fallback worker task ended with
    pres,     \* what the call ended with
    cache,    \* TimeParser.cache, as runs of entries in insertion order
    swept,    \* the last run of _clean_cache: the cache before it and its now
    prev,     \* the last call that returned: its text, zone, clock and value
    rows,     \* the rows of the table server_timezones
    setters,  \* where each set_server_timezone task is, with its arguments
    users,    \* the table users: the stored timezone of each user, or None
    ucall,    \* where the set_timezone call is, with its arguments
    calls,    \* the resolver calls of the tasks that run side by side
    boot      \* where main() is, with its retry_count and what it logged

zvars == <<zpc, zin, znorm, zsc, zwork, zres>>

pvars == <<ppc, pin, pzone, ptext, pnow, pwork, pres>>

dvars == <<rows, setters>>

ovars == <<users, ucall, calls, boot>>

vars == <<zpc, zin, znorm, zsc, zwork, zres, clock, ticks,
          ppc, pin, pzone, ptext, pnow, pwork, pres, cache, swept, prev,
          rows, setters, users, ucall, calls, boot>>

NoScorer == <<NoneVal, 0, NoneVal, 0>>

PPending == [kind |-> "pending", val |-> NoDatetime, path |-> "none"]

NoCall == [text |-> NoneVal, zone |-> NoneVal, at |-> 0, val |-> NoDatetime]

NotSwept == [ran |-> FALSE, before |-> <<>>, now |-> 0]

SetterIdle == [pc |-> "idle", server_id |-> 0, display_name |-> "", timezone |-> NoneVal]

UCallIdle ==
    [pc |-> "idle", user_id |-> 0, arg |-> NoneVal, before |-> NoneVal,
     found |-> Pending, result |-> <<>>]

CallIdle ==
    [op |-> "none", pc |-> "idle", arg |-> NoneVal, zone |-> NoneVal,
     now |-> NoDatetime, workers |-> 0, work |-> Pending, res |-> Pending]

BootStart ==
    [pc |-> "start", retry_count |-> 0, attempts |-> 0, wait_time |-> 0,
     slept |-> <<>>, log |-> <<>>, exit_code |-> 0]

\* the state after construction, but for the cache
InitButCache ==
    /\ zpc = "idle"
    /\ zin = NoneVal
    /\ znorm = <<>>
    /\ zsc = NoScorer
    /\ zwork = Pending
    /\ zres = Pending
    /\ clock \in StartClocks
    /\ ticks = 0
    /\ ppc = "idle"
    /\ pin = NoneVal
    /\ pzone = NoneVal
    /\ ptext = <<>>
    /\ pnow = NoDatetime
    /\ pwork = PPending
    /\ pres = PPending
    /\ swept = NotSwept
    /\ prev = NoCall
    /\ rows = {}
    /\ setters = [t \in Setters |-> SetterIdle]
    /\ users = [u \in UserIds |-> NoneVal]
    /\ ucall = UCallIdle
    /\ calls = [t \in Tasks |-> CallIdle]
    /\ boot = BootStart

Init == InitButCache /\ cache = <<>>

(***************************************************************************)
(* find_timezone as steps                                                  *)
(***************************************************************************)
\* a call of find_timezone(x), up to its return or its await
FindTimezoneCall ==
    /\ zpc = "idle"
    /\ \E x \in ZoneInputs :
        \E r \in {FindTimezoneSync(x)} :
            /\ zin' = x
            /\ IF r.kind = "await"
               THEN /\ zpc' = "waiting"
                    /\ znorm' = NormalizeZoneInput(x)
                    /\ zres' = Pending
               ELSE /\ zpc' = "done"
                    /\ znorm' = <<>>
                    /\ zres' = r
    /\ UNCHANGED <<zsc, zwork, clock, ticks, pvars, cache, swept, prev, dvars, ovars>>

\* the executor runs do_fuzzy_match
FuzzyWorkerRun ==
    /\ zpc = "waiting"
    /\ LET pq == FullProcess(znorm)
       IN  \E sc \in ScorerParams :
            /\ zsc' = sc
            /\ zwork' = do_fuzzy_match(Scores(sc, pq, AliasKeys, ProcessedAliasKeys),
                                       Scores(sc, pq, all_timezones, ProcessedCatalog))
    /\ zpc' = "resuming"
    /\ UNCHANGED <<zin, znorm, zres, clock, ticks, pvars, cache, swept, prev, dvars, ovars>>

\* the worker task raises
FuzzyWorkerFault ==
    /\ zpc = "waiting"
    /\ zwork' = Raise("worker")
    /\ zpc' = "resuming"
    /\ UNCHANGED <<zin, znorm, zsc, zres, clock, ticks, pvars, cache, swept, prev, dvars, ovars>>

\* the await completes: the worker's value is returned, its exception caught
FindTimezoneResume ==
    /\ zpc = "resuming"
    /\ zres' = IF zwork.kind = "raise" THEN FindTimezoneExcept ELSE zwork
    /\ zpc' = "done"
    /\ UNCHANGED <<zin, znorm, zsc, zwork, clock, ticks, pvars, cache, swept, prev, dvars, ovars>>

\* the caller takes the result
FindTimezoneReturn ==
    /\ zpc = "done"
    /\ zpc' = "idle"
    /\ zin' = NoneVal
    /\ znorm' = <<>>
    /\ zsc' = NoScorer
    /\ zwork' = Pending
    /\ zres' = Pending
    /\ UNCHANGED <<clock, ticks, pvars, cache, swept, prev, dvars, ovars>>

(***************************************************************************)
(* parse_time as steps                                                     *)
(***************************************************************************)
\* the clock moves
Tick ==
    /\ ticks < MaxTicks
    /\ \E d \in TickSteps : clock' = clock + d
    /\ ticks' = ticks + 1
    /\ UNCHANGED <<zvars, pvars, cache, swept, prev, dvars, ovars>>

\* a parse_time that answers from the cache: an unexpired entry under the
\* key of the call is returned as it is
ParseTimeCallWithCached(x, z) ==
    /\ ppc = "idle"
    /\ LET k == CacheKeyNumber(NormalizeTimeInput(x), z)
           hits == {i \in 1..Len(cache) :
                       /\ cache[i].lo <= k
                       /\ k < cache[i].lo + cache[i].n
                       /\ Unexpired(cache[i], clock)}
       IN  \E r \in {IF hits # {} THEN Return(cache[CHOOSE i \in hits : TRUE].val, "cache")
                      ELSE ParseTimeSync(x, z, clock)} :
               /\ pin' = x
               /\ pzone' = z
               /\ ptext' = NormalizeTimeInput(x)
               /\ pnow' = IF z \in KnownZones THEN NowIn(z, clock) ELSE NoDatetime
               /\ IF r.kind = "await"
                  THEN ppc' = "waiting" /\ pres' = PPending
                  ELSE ppc' = "done" /\ pres' = r
    /\ UNCHANGED <<zvars, clock, ticks, pwork, cache, swept, prev, dvars, ovars>>

\* a call of parse_time(x, z), up to its return or its await
ParseTimeCallWith(x, z) ==
    /\ ppc = "idle"
    /\ \E r \in {ParseTimeSync(x, z, clock)} :
           /\ pin' = x
           /\ pzone' = z
           /\ ptext' = NormalizeTimeInput(x)
           /\ pnow' = IF z \in KnownZones THEN NowIn(z, clock) ELSE NoDatetime
           /\ IF r.kind = "await"
              THEN ppc' = "waiting" /\ pres' = PPending
              ELSE ppc' = "done" /\ pres' = r
    /\ UNCHANGED <<zvars, clock, ticks, pwork, cache, swept, prev, dvars, ovars>>

ParseTimeCall == \E x \in TimeInputs, z \in RefZones : ParseTimeCallWith(x, z)

\* the executor runs dateparser.parse
FallbackWorkerRun ==
    /\ ppc = "waiting"
    /\ \E parsed_dt \in FallbackAnswers(pnow) : pwork' = Return(parsed_dt, "dateparser")
    /\ ppc' = "resuming"
    /\ UNCHANGED <<zvars, clock, ticks, pin, pzone, ptext, pnow, pres, cache, swept, prev, dvars, ovars>>

\* the worker task raises
FallbackWorkerFault ==
    /\ ppc = "waiting"
    /\ pwork' = [kind |-> "raise", val |-> NoDatetime, path |-> "worker"]
    /\ ppc' = "resuming"
    /\ UNCHANGED <<zvars, clock, ticks, pin, pzone, ptext, pnow, pres, cache, swept, prev, dvars, ovars>>

\* the await completes
ParseTimeResume ==
    /\ ppc = "resuming"
    /\ pres' = IF pwork.kind = "raise" THEN ParseTimeExcept
               ELSE ParseTimeAfterFallback(ptext, pnow, pwork.val)
    /\ ppc' = "done"
    /\ UNCHANGED <<zvars, clock, ticks, pin, pzone, ptext, pnow, pwork, cache, swept, prev, dvars, ovars>>

\* the caller takes the result; p is what it remembers of the call
ParseTimeTaken(p) ==
    /\ ppc = "done"
    /\ ppc' = "idle"
    /\ pin' = NoneVal
    /\ pzone' = NoneVal
    /\ ptext' = <<>>
    /\ pnow' = NoDatetime
    /\ pwork' = PPending
    /\ pres' = PPending
    /\ prev' = p
    /\ UNCHANGED <<zvars, clock, ticks, cache, swept, dvars, ovars>>

ParseTimeReturn == ParseTimeTaken(prev)

(***************************************************************************)
(* A caller that repeats calls and remembers the last one                  *)
(***************************************************************************)
RepeatInputs == {t_now, t_in_2_hours, t_3pm}

RepeatCall == \E x \in RepeatInputs : ParseTimeCallWith(x, s_UTC)

ParseTimeReturnRemembered ==
    ParseTimeTaken([text |-> ptext, zone |-> pzone, at |-> UtcOf(pnow), val |-> pres.val])

(***************************************************************************)
(* _clean_cache as a step. No code of the program calls it; it is run here *)
(* on the caches a run starts with.                                        *)
(***************************************************************************)
CleanCache ==
    /\ cache' = _clean_cache(cache, clock)
    /\ swept' = [ran |-> TRUE, before |-> cache, now |-> clock]
    /\ UNCHANGED <<zvars, clock, ticks, pvars, prev, dvars, ovars>>

(***************************************************************************)
(* TimezoneDB: set_server_timezone as steps, one per database await; each  *)
(* call opens its own connection and nothing spans its statements          *)
(***************************************************************************)
\* a task calls set_server_timezone and sends its first SELECT
SetServerTimezoneCall ==
    \E t \in Setters, g \in GuildIds, d \in DisplayNames :
        /\ setters[t].pc = "idle"
        /\ setters' = [setters EXCEPT ![t] =
               [pc |-> "existing", server_id |-> g, display_name |-> d,
                timezone |-> s_UTC]]
        /\ UNCHANGED <<zvars, clock, ticks, pvars, cache, swept, prev, rows, ovars>>

\* existing = await cursor.fetchone(): an existing name skips the limit test
SetServerTimezoneExisting ==
    \E t \in Setters :
        /\ setters[t].pc = "existing"
        /\ setters' = [setters EXCEPT ![t].pc =
               IF SelectExisting(rows, setters[t].server_id, setters[t].display_name) # {}
               THEN "insert" ELSE "count"]
        /\ UNCHANGED <<zvars, clock, ticks, pvars, cache, swept, prev, rows, ovars>>

\* count = (await cursor.fetchone())[0]: at the limit the call returns False
SetServerTimezoneCount ==
    \E t \in Setters :
        /\ setters[t].pc = "count"
        /\ setters' = [setters EXCEPT ![t] =
               IF SelectCount(rows, setters[t].server_id) >= SERVER_TIMEZONE_LIMIT
               THEN SetterIdle
               ELSE [setters[t] EXCEPT !.pc = "insert"]]
        /\ UNCHANGED <<zvars, clock, ticks, pvars, cache, swept, prev, rows, ovars>>

\* INSERT OR REPLACE and commit; the call returns True
SetServerTimezoneInsert ==
    \E t \in Setters :
        /\ setters[t].pc = "insert"
        /\ rows' = InsertOrReplace(rows, setters[t].server_id,
                                   setters[t].display_name, setters[t].timezone)
        /\ setters' = [setters EXCEPT ![t] = SetterIdle]
        /\ UNCHANGED <<zvars, clock, ticks, pvars, cache, swept, prev, ovars>>

\* remove_server_timezone: one DELETE and commit
RemoveServerTimezone ==
    \E g \in GuildIds, d \in DisplayNames :
        /\ rows' = DeleteRow(rows, g, d)
        /\ UNCHANGED <<zvars, clock, ticks, pvars, cache, swept, prev, setters, ovars>>

\* clear_server_timezones: one DELETE and commit
ClearServerTimezones ==
    \E g \in GuildIds :
        /\ rows' = DeleteServer(rows, g)
        /\ UNCHANGED <<zvars, clock, ticks, pvars, cache, swept, prev, setters, ovars>>

(***************************************************************************)
(* TimezoneDB: set_timezone as steps, one per await                        *)
(***************************************************************************)
s_new_york == <<"n", "e", "w", " ", "y", "o", "r", "k">>

s_zzz == <<"z", "z", "z">>

SetTimezoneInputs == {s_EST, s_JST, s_UTC, s_Asia_Tokyo, s_new_york, s_zzz, NoneVal}

\* scorers that find an alias, a catalog name and nothing
SetTimezoneScorers ==
    { <<s_CET, 85, s_America_New_York, 84>>,
      <<s_CET, 84, s_America_Chicago, 85>>,
      <<s_EST, 84, s_UTC, 84>> }

\* INSERT OR IGNORE: a user's first timezone is kept
StoreTimezoneKeepFirst(table, user_id, timezone) ==
    IF table[user_id] # NoneVal THEN table
    ELSE [table EXCEPT ![user_id] = timezone]

\* INSERT INTO users ... ON CONFLICT(user_id) DO UPDATE SET timezone = ?
StoreTimezone(table, user_id, timezone) ==
    [table EXCEPT ![user_id] = timezone]

\* a call of set_timezone(u, x): find_timezone runs up to its return or
\* its await
SetTimezoneCall ==
    /\ ucall.pc = "idle"
    /\ \E u \in UserIds, x \in SetTimezoneInputs :
        \E r \in {FindTimezoneSync(x)} :
            ucall' = [pc |-> IF r.kind = "await" THEN "matching" ELSE "found",
                      user_id |-> u, arg |-> x, before |-> users[u],
                      found |-> IF r.kind = "await" THEN Pending ELSE r,
                      result |-> <<>>]
    /\ UNCHANGED <<zvars, clock, ticks, pvars, cache, swept, prev, dvars,
                   users, calls, boot>>

\* the executor runs do_fuzzy_match and find_timezone returns its value
SetTimezoneWorkerRun ==
    /\ ucall.pc = "matching"
    /\ LET pq == FullProcess(NormalizeZoneInput(ucall.arg))
       IN  \E sc \in SetTimezoneScorers :
            ucall' = [ucall EXCEPT
                !.found = do_fuzzy_match(Scores(sc, pq, AliasKeys, ProcessedAliasKeys),
                                         Scores(sc, pq, all_timezones, ProcessedCatalog)),
                !.pc = "found"]
    /\ UNCHANGED <<zvars, clock, ticks, pvars, cache, swept, prev, dvars,
                   users, calls, boot>>

\* the worker task raises and find_timezone returns (None, [])
SetTimezoneWorkerFault ==
    /\ ucall.pc = "matching"
    /\ ucall' = [ucall EXCEPT !.found = FindTimezoneExcept, !.pc = "found"]
    /\ UNCHANGED <<zvars, clock, ticks, pvars, cache, swept, prev, dvars,
                   users, calls, boot>>

\* if matched_timezone: the row is written and committed; else the
\* suggestions are returned
SetTimezoneStore ==
    /\ ucall.pc = "found"
    /\ LET matched_timezone == ucall.found.val[1]
           suggestions == ucall.found.val[2]
       IN  IF matched_timezone # NoneVal
           THEN /\ users' = StoreTimezone(users, ucall.user_id, matched_timezone)
                /\ ucall' = [ucall EXCEPT !.result = <<TRUE, matched_timezone, <<>>>>,
                                          !.pc = "done"]
           ELSE /\ users' = users
                /\ ucall' = [ucall EXCEPT !.result = <<FALSE, NoneVal, suggestions>>,
                                          !.pc = "done"]
    /\ UNCHANGED <<zvars, clock, ticks, pvars, cache, swept, prev, dvars,
                   calls, boot>>

\* the database raises before the commit: nothing is written
SetTimezoneStoreFault ==
    /\ ucall.pc = "found"
    /\ ucall.found.val[1] # NoneVal
    /\ ucall' = [ucall EXCEPT !.result = <<FALSE, NoneVal, <<>>>>, !.pc = "done"]
    /\ UNCHANGED <<zvars, clock, ticks, pvars, cache, swept, prev, dvars,
                   users, calls, boot>>

\* the caller takes the result
SetTimezoneReturn ==
    /\ ucall.pc = "done"
    /\ ucall' = UCallIdle
    /\ UNCHANGED <<zvars, clock, ticks, pvars, cache, swept, prev, dvars,
                   users, calls, boot>>

(***************************************************************************)
(* Calls of parse_time and find_timezone by tasks that run side by side on *)
(* the same TimeParser. A task is switched only at an await, so a call is  *)
(* a step up to its return or its await, the worker's run, and a step from *)
(* the await to the return.                                                *)
(***************************************************************************)
\* one text per stage of the cascade, a text for the fallback parser and a
\* text whose stage raises
ConcurrentTimeInputs ==
    {t_now, t_3pm, t_15_00, t_in_2_hours, t_march_30, t_noon, t_25pm}

ConcurrentRefZones == {s_UTC, s_Mars}

\* an alias, a catalog name, a text for fuzzy matching and a non-string
ConcurrentZoneInputs == {s_EST, s_UTC, s_new_york, NoneVal}

\* scorers that find an alias, a catalog name and nothing
ConcurrentScorers ==
    { <<s_EST, 85, s_America_New_York, 84>>,
      <<s_CET, 84, s_Asia_Tokyo, 85>>,
      <<s_EST, 84, s_UTC, 84>> }

\* a task calls parse_time(x, z): it runs up to its return or its await
TaskParseTimeCall ==
    \E t \in Tasks, x \in ConcurrentTimeInputs, z \in ConcurrentRefZones :
        /\ calls[t].pc = "idle"
        /\ \E r \in {ParseTimeSync(x, z, clock)} :
            calls' = [calls EXCEPT ![t] =
                [op |-> "parse_time",
                 pc |-> IF r.kind = "await" THEN "waiting" ELSE "done",
                 arg |-> x, zone |-> z,
                 now |-> IF z \in KnownZones THEN NowIn(z, clock) ELSE NoDatetime,
                 workers |-> IF r.kind = "await" THEN 1 ELSE 0,
                 work |-> Pending,
                 res |-> IF r.kind = "await" THEN Pending ELSE r]]
        /\ UNCHANGED <<zvars, clock, ticks, pvars, cache, swept, prev, dvars,
                       users, ucall, boot>>

\* a task calls find_timezone(x): it runs up to its return or its await
TaskFindTimezoneCall ==
    \E t \in Tasks, x \in ConcurrentZoneInputs :
        /\ calls[t].pc = "idle"
        /\ \E r \in {FindTimezoneSync(x)} :
            calls' = [calls EXCEPT ![t] =
                [op |-> "find_timezone",
                 pc |-> IF r.kind = "await" THEN "waiting" ELSE "done",
                 arg |-> x, zone |-> NoneVal, now |-> NoDatetime,
                 workers |-> IF r.kind = "await" THEN 1 ELSE 0,
                 work |-> Pending,
                 res |-> IF r.kind = "await" THEN Pending ELSE r]]
        /\ UNCHANGED <<zvars, clock, ticks, pvars, cache, swept, prev, dvars,
                       users, ucall, boot>>

\* what the worker task of call c may end with
WorkerAnswers(c) ==
    IF c.op = "parse_time"
    THEN {Return(parsed_dt, "dateparser") : parsed_dt \in FallbackAnswers(c.now)}
    ELSE LET pq == FullProcess(NormalizeZoneInput(c.arg))
         IN  {do_fuzzy_match(Scores(sc, pq, AliasKeys, ProcessedAliasKeys),
                             Scores(sc, pq, all_timezones, ProcessedCatalog)) :
                 sc \in ConcurrentScorers}

\* the executor runs the worker task of a waiting call
TaskWorkerRun ==
    \E t \in Tasks :
        /\ calls[t].pc = "waiting"
        /\ \E w \in WorkerAnswers(calls[t]) :
            calls' = [calls EXCEPT ![t].work = w, ![t].pc = "resuming"]
        /\ UNCHANGED <<zvars, clock, ticks, pvars, cache, swept, prev, dvars,
                       users, ucall, boot>>

\* the worker task of a waiting call raises
TaskWorkerFault ==
    \E t \in Tasks :
        /\ calls[t].pc = "waiting"
        /\ calls' = [calls EXCEPT ![t].work = Raise("worker"), ![t].pc = "resuming"]
        /\ UNCHANGED <<zvars, clock, ticks, pvars, cache, swept, prev, dvars,
                       users, ucall, boot>>

\* an await that ends with the exception of any worker that raised
AwaitedWorkOfAny(t) ==
    IF \E u \in Tasks : calls[u].work.kind = "raise"
    THEN Raise("worker")
    ELSE calls[t].work

\* await loop.run_in_executor(...): what the call of task t gets is what
\* its own worker task ended with
AwaitedWork(t) == calls[t].work

\* the call c from its await to its return, w being what the await gave
AfterAwait(c, w) ==
    IF c.op = "parse_time"
    THEN IF w.kind = "raise" THEN ParseTimeExcept
         ELSE ParseTimeAfterFallback(NormalizeTimeInput(c.arg), c.now, w.val)
    ELSE IF w.kind = "raise" THEN FindTimezoneExcept ELSE w

\* the await of a call completes and the call runs to its return
TaskResume ==
    \E t \in Tasks :
        /\ calls[t].pc = "resuming"
        /\ calls' = [calls EXCEPT ![t].res = AfterAwait(calls[t], AwaitedWork(t)),
                                  ![t].pc = "done"]
        /\ UNCHANGED <<zvars, clock, ticks, pvars, cache, swept, prev, dvars,
                       users, ucall, boot>>

\* the caller takes the result
TaskReturn ==
    \E t \in Tasks :
        /\ calls[t].pc = "done"
        /\ calls' = [calls EXCEPT ![t] = CallIdle]
        /\ UNCHANGED <<zvars, clock, ticks, pvars, cache, swept, prev, dvars,
                       users, ucall, boot>>

(***************************************************************************)
(* main: the retry loop around asyncio.run(start_bot())                    *)
(***************************************************************************)
INITIAL_RETRY_DELAY == 60

MAX_RETRIES == 3

\* a delay that doubles from the first retry on
RetryDelayDoubled(retry_count) == INITIAL_RETRY_DELAY * 2 ^ retry_count

\* wait_time = base_delay * (2 ** (retry_count - 1))
RetryDelay(retry_count) == INITIAL_RETRY_DELAY * 2 ^ (retry_count - 1)

\* the exceptions start_bot re-raises after closing the bot
AttemptErrors == {"LoginFailure", "ClientConnectorError", "OSError"}

\* while retry_count < MAX_RETRIES: the next attempt, or the end of main
LoopTest(b) ==
    IF b.retry_count < MAX_RETRIES
    THEN [b EXCEPT !.pc = "running", !.attempts = b.attempts + 1]
    ELSE [b EXCEPT !.pc = "returned"]

\* main() is entered
MainStart ==
    /\ boot.pc = "start"
    /\ boot' = LoopTest(boot)
    /\ UNCHANGED <<zvars, clock, ticks, pvars, cache, swept, prev, dvars,
                   users, ucall, calls>>

\* asyncio.run(start_bot()) returns: break
StartBotReturns ==
    /\ boot.pc = "running"
    /\ boot' = [boot EXCEPT !.pc = "returned"]
    /\ UNCHANGED <<zvars, clock, ticks, pvars, cache, swept, prev, dvars,
                   users, ucall, calls>>

\* asyncio.run(start_bot()) raises an Exception: it is counted and logged,
\* then main sleeps or raises SystemExit(1)
StartBotRaises ==
    /\ boot.pc = "running"
    /\ \E e \in AttemptErrors :
        LET retry_count == boot.retry_count + 1
        IN  boot' = IF retry_count < MAX_RETRIES
                    THEN [boot EXCEPT !.retry_count = retry_count,
                                      !.log = Append(boot.log, e),
                                      !.wait_time = RetryDelay(retry_count),
                                      !.pc = "sleeping"]
                    ELSE [boot EXCEPT !.retry_count = retry_count,
                                      !.log = Append(boot.log, e),
                                      !.exit_code = 1,
                                      !.pc = "exit"]
    /\ UNCHANGED <<zvars, clock, ticks, pvars, cache, swept, prev, dvars,
                   users, ucall, calls>>

\* time.sleep(wait_time) returns and the loop tests its condition again
SleepReturns ==
    /\ boot.pc = "sleeping"
    /\ boot' = LoopTest([boot EXCEPT !.slept = Append(boot.slept, boot.wait_time)])
    /\ clock' = clock + boot.wait_time
    /\ UNCHANGED <<zvars, ticks, pvars, cache, swept, prev, dvars,
                   users, ucall, calls>>

\* KeyboardInterrupt, in an attempt or in a sleep, is no Exception: it
\* leaves main
MainInterrupted ==
    /\ boot.pc \in {"running", "sleeping"}
    /\ boot' = [boot EXCEPT !.pc = "interrupted"]
    /\ UNCHANGED <<zvars, clock, ticks, pvars, cache, swept, prev, dvars,
                   users, ucall, calls>>

(***************************************************************************)
(* Specifications                                                          *)
(***************************************************************************)
UsersNext ==
    \/ SetTimezoneCall
    \/ SetTimezoneWorkerRun
    \/ SetTimezoneWorkerFault
    \/ SetTimezoneStore
    \/ SetTimezoneStoreFault
    \/ SetTimezoneReturn

ConcurrentNext ==
    \/ Tick
    \/ TaskParseTimeCall
    \/ TaskFindTimezoneCall
    \/ TaskWorkerRun
    \/ TaskWorkerFault
    \/ TaskResume
    \/ TaskReturn

MainNext ==
    \/ MainStart
    \/ StartBotReturns
    \/ StartBotRaises
    \/ SleepReturns
    \/ MainInterrupted

ZoneNext ==
    \/ FindTimezoneCall
    \/ FuzzyWorkerRun
    \/ FuzzyWorkerFault
    \/ FindTimezoneResume
    \/ FindTimezoneReturn

ParseNext ==
    \/ Tick
    \/ ParseTimeCall
    \/ FallbackWorkerRun
    \/ FallbackWorkerFault
    \/ ParseTimeResume
    \/ ParseTimeReturn

RepeatNext ==
    \/ Tick
    \/ RepeatCall
    \/ ParseTimeReturnRemembered

ServerNext ==
    \/ SetServerTimezoneCall
    \/ SetServerTimezoneExisting
    \/ SetServerTimezoneCount
    \/ SetServerTimezoneInsert
    \/ RemoveServerTimezone
    \/ ClearServerTimezones

CacheNext ==
    \/ Tick
    \/ CleanCache

Next == ZoneNext \/ ParseNext \/ ServerNext \/ UsersNext \/ ConcurrentNext \/ MainNext

Spec == Init /\ [][Next]_vars

\* the zone resolver alone; it does not read the clock
ZoneInit == Init /\ clock = SetMin(StartClocks)

SpecZone == ZoneInit /\ [][ZoneNext]_vars

\* the time resolver alone
SpecParse == Init /\ [][ParseNext]_vars

\* the time resolver under a caller that repeats calls
SpecRepeat == Init /\ [][RepeatNext]_vars

\* a run that starts with entries in the cache
CacheInit ==
    /\ InitButCache
    /\ \E shape \in CacheShapes : cache = CacheOfShape(shape, clock)

\* _clean_cache alone, on the caches a run starts with
SpecCache == CacheInit /\ [][CacheNext]_vars

\* the time resolver with entries in the cache
SpecCachedParse == CacheInit /\ [][ParseNext]_vars

\* the server table alone; it does not read the clock
ServerInit == Init /\ clock = SetMin(StartClocks)

SpecServer == ServerInit /\ [][ServerNext]_vars

\* the table users alone; it does not read the clock
SpecUsers == ZoneInit /\ [][UsersNext]_vars

\* the resolvers called by tasks that run side by side
SpecConcurrent == ZoneInit /\ [][ConcurrentNext]_vars

\* main alone; an attempt that is running ends and a sleep ends
SpecMain == Init /\ [][MainNext]_vars /\ WF_vars(MainNext)

(***************************************************************************)
(* Properties of parse_time                                                *)
(***************************************************************************)
\* simple hour and clock inputs with the time of day each asks for
TimeOfDayInputs ==
    { <<t_3pm, 15, 0>>, <<t_3PM, 15, 0>>, <<t_3am, 3, 0>>, <<t_1am, 1, 0>>,
      <<t_12am, 0, 0>>, <<t_12pm, 12, 0>>, <<t_15_00, 15, 0>>,
      <<t_3_30_pm, 15, 30>>, <<t_0_05, 0, 5>> }

\* today's date, in the zone of the call, at h:m
TodayAt(h, m) == DayOfWall(pnow.wall) * SecondsPerDay + h * 3600 + m * 60

\* C1: for a simple hour or clock input, with T the requested time of day on
\* today's date in the reference zone, parse_time returns T when T >= now or
\* now - T <= 12 hours, and T + 1 day when now - T > 12 hours.
C1_RolloverPolicy ==
    \A e \in TimeOfDayInputs :
        (ppc = "done" /\ pin = e[1] /\ pzone \in KnownZones) =>
            /\ pres.kind = "return"
            /\ pres.val.some
            /\ pres.val.tz = pzone
            /\ pres.val.off = pnow.off
            /\ pres.val.wall = IF pnow.wall - TodayAt(e[2], e[3]) > 12 * 3600
                               THEN TodayAt(e[2], e[3]) + SecondsPerDay
                               ELSE TodayAt(e[2], e[3])

\* "3am" asked at 15:00:00 sharp: the gap is exactly 12 hours, the answer today
C1_Witness ==
    /\ ppc = "done"
    /\ pin = t_3am
    /\ pzone = s_UTC
    /\ pnow.wall - TodayAt(3, 0) = 12 * 3600
    /\ pres.val.wall = TodayAt(3, 0)

\* C2, as claimed: at reference time 02:00, parse_time("1am") is tomorrow 01:00.
C2_TomorrowAtTwo ==
    (ppc = "done" /\ pin = t_1am /\ pzone \in KnownZones
        /\ pnow.wall % SecondsPerDay = 2 * 3600) =>
            /\ pres.kind = "return"
            /\ pres.val.some
            /\ pres.val.wall = TodayAt(1, 0) + SecondsPerDay

\* C2, amended: at reference time 02:00, parse_time("1am") is today 01:00
\* (the time passed one hour ago, which is not more than 12 hours).
C2_TodayAtTwo ==
    (ppc = "done" /\ pin = t_1am /\ pzone \in KnownZones
        /\ pnow.wall % SecondsPerDay = 2 * 3600) =>
            /\ pres.kind = "return"
            /\ pres.val.some
            /\ pres.val.wall = TodayAt(1, 0)

C2_Witness ==
    /\ ppc = "done"
    /\ pin = t_1am
    /\ pzone = s_UTC
    /\ pnow.wall % SecondsPerDay = 2 * 3600
    /\ pres.val.some

\* C3: a parse_time call with the text and zone of the call before it, made
\* within the cache lifetime of it, returns the instant that call returned.
C3_RepeatedCallSameInstant ==
    (ppc = "done" /\ prev.text = ptext /\ prev.zone = pzone
        /\ UtcOf(pnow) - prev.at < CACHE_LIFETIME) =>
            pres.val = prev.val

\* C10: parse_time never raises; it returns None when the reference zone is
\* unknown, when a stage raises, when the fallback worker raises, and when no
\* stage matched and the fallback parser answered nothing.
C10_NoResultNeverRaises ==
    ppc = "done" =>
        /\ pres.kind = "return"
        /\ pzone \notin KnownZones => ~pres.val.some
        /\ pin = t_25pm => ~pres.val.some
        /\ pwork.kind = "raise" => ~pres.val.some
        /\ (pwork.kind = "return" /\ ~pwork.val.some) => ~pres.val.some

\* "not a time": no stage matches and the fallback parser answers nothing
C10_Witness ==
    /\ ppc = "done"
    /\ pin = t_not_a_time
    /\ pzone \in KnownZones
    /\ pwork.kind = "return"
    /\ ~pwork.val.some
    /\ pres.kind = "return"
    /\ ~pres.val.some

(***************************************************************************)
(* Properties of find_timezone                                             *)
(***************************************************************************)
\* C4: for every identifier z of the zone catalog, find_timezone(z) returns
\* (z, []).
C4_CatalogIdentity ==
    (zpc = "done" /\ zin \in CatalogSet) =>
        zres.kind = "return" /\ zres.val = <<zin, <<>>>>

\* C5: for every alias key a, find_timezone of a, of a in lower case, and of
\* either in surrounding whitespace returns (COMMON_TIMEZONE_MAPPINGS[a], []).
C5_AliasAnyCase ==
    \A i \in 1..Len(COMMON_TIMEZONE_MAPPINGS) :
        LET a == COMMON_TIMEZONE_MAPPINGS[i][1]
        IN  (zpc = "done" /\ zin \in {a, Lower(a), Padded(a), Padded(Lower(a))}) =>
                /\ zres.kind = "return"
                /\ zres.val = <<COMMON_TIMEZONE_MAPPINGS[i][2], <<>>>>

C5_Witness ==
    /\ zpc = "done"
    /\ zin = Padded(Lower(s_CST))
    /\ zres.val = <<s_America_Chicago, <<>>>>

\* C6: the zone find_timezone returns is None or a member of the catalog.
C6_MatchInCatalog ==
    (zpc = "done" /\ zres.kind = "return") =>
        zres.val[1] = NoneVal \/ zres.val[1] \in CatalogSet

\* a fuzzy alias hit
C6_Witness ==
    /\ zpc = "done"
    /\ zres.path = "alias_fuzzy"
    /\ zres.val[1] \in CatalogSet

\* the best score the scorer of the call gave a list of choices
BestScore(choices, pchoices) ==
    LET scores == Scores(zsc, FullProcess(Upper(Strip(zin))), choices, pchoices)
    IN  SetMax({scores[i] : i \in 1..Len(choices)})

\* C7: the lookups are tried in order and the first hit wins: the exact alias
\* lookup, the exact catalog lookup, the fuzzy alias lookup, the fuzzy
\* catalog lookup.
C7_LookupOrder ==
    (zpc = "done" /\ zin # NoneVal /\ zwork.kind # "raise") =>
        LET u == Upper(Strip(zin))
        IN  IF u \in AliasKeySet
            THEN zres.path = "alias_exact" /\ zres.val = <<AliasLookup(u), <<>>>>
            ELSE IF u \in CatalogSet
            THEN zres.path = "catalog_exact" /\ zres.val = <<u, <<>>>>
            ELSE IF BestScore(AliasKeys, ProcessedAliasKeys) >= 85
            THEN /\ zres.path = "alias_fuzzy"
                 /\ \E i \in 1..Len(COMMON_TIMEZONE_MAPPINGS) :
                        zres.val = <<COMMON_TIMEZONE_MAPPINGS[i][2], <<>>>>
            ELSE IF BestScore(all_timezones, ProcessedCatalog) >= 85
            THEN zres.path = "catalog_fuzzy" /\ zres.val[1] # NoneVal
            ELSE zres.path = "no_match" /\ zres.val[1] = NoneVal

\* "EST" is an alias key and a catalog entry: the alias wins
C7_Witness ==
    /\ zpc = "done"
    /\ zin = s_EST
    /\ zres.val = <<s_America_New_York, <<>>>>

\* C8: find_timezone returns at most 3 suggestions, and an input that
\* matches nothing yields None with at most 3 suggestions.
C8_SuggestionsBounded ==
    (zpc = "done") =>
        /\ zres.kind = "return"
        /\ Len(zres.val[2]) <= 3
        /\ (/\ zin # NoneVal
            /\ zwork.kind = "return"
            /\ BestScore(AliasKeys, ProcessedAliasKeys) < 85
            /\ BestScore(all_timezones, ProcessedCatalog) < 85)
           => zres.val[1] = NoneVal

\* the empty text matches nothing
C8_Witness ==
    /\ zpc = "done"
    /\ zin = <<>>
    /\ zwork.kind = "return"
    /\ zres.val[1] = NoneVal
    /\ Len(zres.val[2]) = 3

\* C9: find_timezone never raises: an exception in normalization or in the
\* worker task becomes the result (None, []).
C9_NeverRaises ==
    (zpc = "done") =>
        /\ zres.kind = "return"
        /\ (zin = NoneVal \/ zwork.kind = "raise") => zres.val = <<NoneVal, <<>>>>

\* the worker task raised
C9_Witness ==
    /\ zpc = "done"
    /\ zwork.kind = "raise"
    /\ zres.kind = "return"
    /\ zres.val = <<NoneVal, <<>>>>

(***************************************************************************)
(* Properties of the stages of parse_time                                  *)
(***************************************************************************)
\* inputs that match simple_hour_pattern or time_pattern with an hour above
\* 23 or a minute above 59
MalformedInputs == {t_10_75, t_25_00, t_25pm}

\* C11: for every input that matches the simple hour or the clock pattern
\* with an hour above 23 or a minute above 59, parse_time returns None.
C11_MalformedFailsClosed ==
    (ppc = "done" /\ pin \in MalformedInputs /\ pzone \in KnownZones) =>
        pres.kind = "return" /\ ~pres.val.some

\* month and day inputs without a year: the text, the month, the day and the
\* time of day each asks for
MonthDayInputs ==
    { <<t_march_30, 3, 30, 0, 0>>, <<t_march_30_3pm, 3, 30, 15, 0>>,
      <<t_december_31_23_59, 12, 31, 23, 59>> }

RelativeInputs ==
    { <<t_in_2_hours, 2, 3600, TRUE>>, <<t_In__2_Hours, 2, 3600, TRUE>>,
      <<t_in_30_min, 30, 60, TRUE>>, <<t_in_90_mins, 90, 60, TRUE>>,
      <<t_in_99999999_hours, 99999999, 3600, FALSE>> }

\* what parse_time("now", z) returns for the clock reading of this call,
\* moved by amount units of unit seconds
NowPlus(amount, unit) ==
    LET now == NowIn(pzone, pnow.wall - pnow.off)
    IN  [now EXCEPT !.wall = now.wall + amount * unit]

\* C13, as claimed: for every "in N hours" or "in N minutes" input,
\* parse_time returns exactly now + N hours or now + N minutes.
C13_RelativeExact ==
    \A e \in RelativeInputs :
        (ppc = "done" /\ pin = e[1] /\ pzone \in KnownZones) =>
            /\ pres.kind = "return"
            /\ pres.val.some
            /\ pres.val = NowPlus(e[2], e[3])

\* C13, amended: for "in N hours" or "in N minutes", parse_time returns
\* exactly now + N hours or minutes when that is within the range of
\* datetime (up to year 9999), and None when it is beyond it.
C13_RelativeExactInRange ==
    \A e \in RelativeInputs :
        (ppc = "done" /\ pin = e[1] /\ pzone \in KnownZones) =>
            /\ pres.kind = "return"
            /\ IF e[4]
               THEN pres.val.some /\ pres.val = NowPlus(e[2], e[3])
               ELSE ~pres.val.some

\* "in 99999999 hours": past the end of datetime, no instant
C13_Witness ==
    /\ ppc = "done"
    /\ pin = t_in_99999999_hours
    /\ pzone \in KnownZones
    /\ pres.kind = "return"
    /\ ~pres.val.some

\* C14: every value parse_time returns that is not None carries a tzinfo.
C14_AlwaysAware ==
    (ppc = "done" /\ pres.kind = "return" /\ pres.val.some) =>
        IsAware(pres.val) /\ pres.val.tz \in KnownZones

\* a result of the month and day stage, built naive and then given its zone
C14_Witness ==
    /\ ppc = "done"
    /\ pres.path = "month_day"
    /\ pres.val.some
    /\ pres.val.tz = s_Asia_Tokyo

\* whether the pattern of one of the stages before the fallback parser
\* matches the normalized text
StageMatched(text) ==
    \/ text = t_now
    \/ SimpleHourMatch(text) # <<>>
    \/ TimeMatch(text) # <<>>
    \/ RelativeMatch(text) # <<>>
    \/ MonthDaySearch(text).found

\* C16: once the text matches the pattern of a stage, no later stage decides
\* the call: the fallback parser is consulted only for a text that matches
\* none of the patterns.
C16_FirstMatchOwnsResult ==
    (ppc \in {"waiting", "resuming"} \/ (ppc = "done" /\ pwork.kind # "pending")) =>
        ~StageMatched(ptext)

(***************************************************************************)
(* Properties of the fuzzy lookups of find_timezone                        *)
(***************************************************************************)
\* C20: when no exact lookup hits, find_timezone returns the zone of the
\* best-scoring alias with no suggestions iff that alias scores at least 85;
\* otherwise the three best-scoring catalog entries, the best as the match
\* and the other two as suggestions when the best scores at least 85, and
\* no match with all three as suggestions when it does not.
C20_FuzzyThreshold ==
    (zpc = "done" /\ zwork.kind = "return") =>
        LET pq == FullProcess(znorm)
            a == Scores(zsc, pq, AliasKeys, ProcessedAliasKeys)
            c == Scores(zsc, pq, all_timezones, ProcessedCatalog)
            bestA == SetMax({a[i] : i \in 1..Len(AliasKeys)})
            bestC == SetMax({c[i] : i \in 1..Len(all_timezones)})
            listed == IF zres.val[1] = NoneVal THEN zres.val[2]
                      ELSE <<zres.val[1]>> \o zres.val[2]
            ZoneScore(z) == c[IndexOf(z, all_timezones)]
        IN  IF bestA >= 85
            THEN /\ zres.val[2] = <<>>
                 /\ \E i \in 1..Len(AliasKeys) :
                        a[i] = bestA /\ zres.val[1] = COMMON_TIMEZONE_MAPPINGS[i][2]
            ELSE /\ Len(listed) = 3
                 /\ \A i \in 1..3 : listed[i] \in CatalogSet
                 /\ Cardinality({listed[i] : i \in 1..3}) = 3
                 /\ ZoneScore(listed[1]) >= ZoneScore(listed[2])
                 /\ ZoneScore(listed[2]) >= ZoneScore(listed[3])
                 /\ \A z \in CatalogSet \ {listed[i] : i \in 1..3} :
                        ZoneScore(z) <= ZoneScore(listed[3])
                 /\ (zres.val[1] # NoneVal) <=> (bestC >= 85)

\* a catalog entry scoring exactly 85 is the match, with two suggestions
C20_Witness ==
    /\ zpc = "done"
    /\ zres.path = "catalog_fuzzy"
    /\ BestScore(all_timezones, ProcessedCatalog) = 85
    /\ Len(zres.val[2]) = 2

(***************************************************************************)
(* Properties of the server table                                          *)
(***************************************************************************)
\* C15: in every reachable state, under any interleaving of
\* set_server_timezone, remove_server_timezone and clear_server_timezones
\* calls, every server has at most 5 rows in server_timezones.
C15_ServerListLimit ==
    \A g \in GuildIds : SelectCount(rows, g) <= 5

(***************************************************************************)
(* Properties of the parse cache                                           *)
(***************************************************************************)
\* C17: after every parse_time call that returns an instant, the cache holds
\* an entry under the key (normalized text, reference zone) with that
\* instant and the time it was computed.
C17_ResultCached ==
    (ppc = "done" /\ pres.kind = "return" /\ pres.val.some) =>
        \E e \in CacheEntries(cache) :
            /\ e[1] = CacheKeyNumber(ptext, pzone)
            /\ e[2] = pres.val
            /\ e[3] = UtcOf(pnow)

\* the timestamps of a set of entries
TimestampsOf(entries) == {e[3] : e \in entries}

\* C18: after _clean_cache runs, no remaining entry has timestamp + 1 hour
\* <= now, at most 1000 entries remain, every unexpired entry that was
\* dropped is no newer than every retained entry, and every retained entry
\* is an entry of the cache before, unchanged.
C18_CleanCachePostcondition ==
    swept.ran =>
        LET before == CacheEntries(swept.before)
            after == CacheEntries(cache)
            trimmed == {e \in before \ after : e[3] + 3600 > swept.now}
        IN  /\ \A t \in TimestampsOf(after) : ~(t + 3600 <= swept.now)
            /\ Cardinality(after) <= 1000
            /\ Cardinality(after) = CacheLen(cache)
            /\ after \subseteq before
            /\ \A d \in TimestampsOf(trimmed) : \A r \in TimestampsOf(after) : d <= r

\* a run of _clean_cache that dropped expired entries and trimmed the rest
\* to 1000
C18_Witness ==
    /\ swept.ran
    /\ \E i \in 1..Len(swept.before) : swept.before[i].ts + 3600 <= swept.now
    /\ CacheLen(SelectSeq(swept.before, LAMBDA v : v.ts + 3600 > swept.now)) > 1000
    /\ CacheLen(cache) = 1000

\* the value parse_time computes for the call at hand from its text, its
\* zone, its clock reading and the fallback parser's answer alone
UncachedOutcome ==
    LET r == ParseTimeSync(pin, pzone, UtcOf(pnow))
    IN  IF r.kind # "await" THEN r
        ELSE IF pwork.kind = "raise" THEN ParseTimeExcept
        ELSE ParseTimeAfterFallback(ptext, pnow, pwork.val)

\* C19: for the same text, reference zone, clock reading and fallback
\* answer, parse_time returns the same value whatever the cache holds.
C19_CacheTransparent ==
    ppc = "done" => pres = UncachedOutcome

\* "3pm" in UTC asked while the cache holds an unexpired entry under that
\* key with another instant
C19_Witness ==
    /\ ppc = "done"
    /\ pin = t_3pm
    /\ pzone = s_UTC
    /\ pres.val.some
    /\ \E i \in 1..Len(cache) :
           /\ cache[i].lo <= 1
           /\ 1 < cache[i].lo + cache[i].n
           /\ cache[i].ts + 3600 > UtcOf(pnow)
           /\ cache[i].val # pres.val

(***************************************************************************)
(* Properties of the fallback stage and of the results of parse_time       *)
(***************************************************************************)
\* the inputs that hold a word of the date vocabulary
DateWordInputs == {t_tomorrow_3pm, t_today_noon}

\* C21: when the fallback parser returns a candidate, parse_time returns the
\* candidate's instant when the candidate's date differs from today's in the
\* reference zone or the input holds a date word; otherwise today's date
\* with the candidate's hour and minute and seconds zero, a day later only
\* when that time is more than 12 hours before now.
C21_FallbackClassification ==
    (ppc = "done" /\ pwork.kind = "return" /\ pwork.val.some) =>
        LET c == pwork.val
            t == DayOfWall(pnow.wall) * SecondsPerDay
                     + HourOf(c.wall) * 3600 + MinuteOf(c.wall) * 60
        IN  /\ pres.kind = "return"
            /\ pres.val.some
            /\ IF DayOfWall(c.wall) # DayOfWall(pnow.wall) \/ pin \in DateWordInputs
               THEN UtcOf(pres.val) = UtcOf(c)
               ELSE /\ pres.val.tz = pzone
                    /\ pres.val.off = pnow.off
                    /\ pres.val.wall = IF pnow.wall - t > 12 * 3600
                                       THEN t + SecondsPerDay ELSE t

\* "today noon" with a candidate of today's date: the word alone keeps the
\* candidate as it is, seconds included
C21_Witness ==
    /\ ppc = "done"
    /\ pin = t_today_noon
    /\ pwork.kind = "return"
    /\ pwork.val.some
    /\ DayOfWall(pwork.val.wall) = DayOfWall(pnow.wall)
    /\ SecondOf(pwork.val.wall) # 0
    /\ UtcOf(pres.val) = UtcOf(pwork.val)

\* C24: an input "<month name> <day> <year>" resolves to that month and day
\* in the stated year.
C24_ExplicitYearHonoured ==
    (ppc = "done" /\ pin = t_march_30_2027 /\ pzone \in KnownZones) =>
        /\ pres.kind = "return"
        /\ pres.val.some
        /\ YearOf(pres.val.wall) = 2027
        /\ MonthOf(pres.val.wall) = 3
        /\ DayOf(pres.val.wall) = 30

\* inputs that differ from a normalized text only in letter case and in
\* whitespace, with that text
NormalizationPairs ==
    { <<t_3PM, t_3pm>>, <<t_NOW, t_now>>, <<t_In__2_Hours, t_in_2_hours>>,
      <<t_NOON, t_noon>> }

\* the value parse_time computes for the text x with the zone, the clock
\* reading and the fallback answer of the call at hand
OutcomeFor(x) ==
    LET r == ParseTimeSync(x, pzone, UtcOf(pnow))
    IN  IF r.kind # "await" THEN r
        ELSE IF pwork.kind = "raise" THEN ParseTimeExcept
        ELSE ParseTimeAfterFallback(x, pnow, pwork.val)

\* C25: two inputs that differ only in letter case, in surrounding
\* whitespace or in the length of whitespace runs get the same result for
\* the same reference zone, clock reading and fallback answer.
C25_NormalizationInvariance ==
    \A e \in NormalizationPairs :
        (ppc = "done" /\ pin = e[1]) => pres = OutcomeFor(e[2])

\* "In   2  Hours" answered as "in 2 hours"
C25_Witness ==
    /\ ppc = "done"
    /\ pin = t_In__2_Hours
    /\ pzone = s_Asia_Tokyo
    /\ pres.path = "relative"
    /\ pres = OutcomeFor(t_in_2_hours)

\* C28: every instant returned by the simple hour stage, the clock stage or
\* the time-only branch of the fallback stage lies in the window
\* [now - 12 hours, now + 24 hours).
C28_ResultWindow ==
    (ppc = "done" /\ pres.val.some
        /\ pres.path \in {"simple_hour", "clock", "fallback_time"}) =>
            /\ UtcOf(pnow) - 12 * 3600 <= UtcOf(pres.val)
            /\ UtcOf(pres.val) < UtcOf(pnow) + 24 * 3600

\* a fallback candidate's time of day that passed less than 12 hours ago
\* stays on today's date, in the past
C28_Witness ==
    /\ ppc = "done"
    /\ pres.path = "fallback_time"
    /\ pres.val.some
    /\ UtcOf(pres.val) < UtcOf(pnow)
    /\ UtcOf(pnow) - UtcOf(pres.val) > 5 * 3600

(***************************************************************************)
(* Properties of main                                                      *)
(***************************************************************************)
MainEnded == boot.pc \in {"returned", "exit", "interrupted"}

\* what holds of main at every moment
MainRetryLoop ==
    /\ boot.attempts <= MAX_RETRIES
    /\ boot.retry_count <= MAX_RETRIES
    /\ boot.slept = [k \in 1..Len(boot.slept) |-> INITIAL_RETRY_DELAY * 2 ^ (k - 1)]
    /\ Len(boot.slept) <= 2
    /\ boot.pc = "running" =>
           /\ boot.attempts = boot.retry_count + 1
           /\ Len(boot.slept) = boot.retry_count
    /\ boot.pc = "returned" =>
           /\ boot.attempts = boot.retry_count + 1
           /\ Len(boot.slept) = boot.retry_count
           /\ boot.exit_code = 0
    /\ boot.pc = "sleeping" =>
           /\ boot.retry_count < MAX_RETRIES
           /\ boot.attempts = boot.retry_count
           /\ Len(boot.slept) = boot.retry_count - 1
           /\ boot.wait_time = INITIAL_RETRY_DELAY * 2 ^ (boot.retry_count - 1)
    /\ boot.pc = "exit" =>
           /\ boot.retry_count = MAX_RETRIES
           /\ boot.attempts = MAX_RETRIES
           /\ boot.slept = <<60, 120>>
           /\ boot.exit_code = 1

\* C27: main runs start_bot at most MAX_RETRIES (3) times and makes no
\* attempt after one that returned normally; after failed attempt k < 3 it
\* sleeps INITIAL_RETRY_DELAY * 2^(k-1) seconds (60, then 120); after the 3rd
\* failed attempt it raises SystemExit(1) without sleeping; and main ends
\* when every attempt and every sleep ends.
C27_StartupRetryLoop ==
    /\ []MainRetryLoop
    /\ [][MainEnded => boot' = boot]_vars
    /\ <>MainEnded

C27_Witness ==
    /\ boot.pc = "exit"
    /\ boot.attempts = 3
    /\ boot.slept = <<60, 120>>
    /\ Len(boot.log) = 3

(***************************************************************************)
(* Properties of calls that run side by side                               *)
(***************************************************************************)
StagePaths == {"now", "simple_hour", "clock", "relative", "month_day"}

\* C22: a call is suspended only after it dispatched its worker task, the
\* fallback parser for parse_time and the fuzzy matching for find_timezone,
\* and dispatches at most one; a parse_time resolved by one of the stages
\* 1-5, and a find_timezone whose normalized input is an alias or a catalog
\* name, is done without having suspended or dispatched a worker task.
C22_SingleSuspensionPoint ==
    \A t \in Tasks :
        LET c == calls[t]
        IN  /\ c.workers <= 1
            /\ c.pc \in {"waiting", "resuming"} =>
                   /\ c.workers = 1
                   /\ c.op = "find_timezone" =>
                          NormalizeZoneInput(c.arg) \notin AliasKeySet \cup CatalogSet
                   /\ c.op = "parse_time" =>
                          ~StageMatched(NormalizeTimeInput(c.arg))
            /\ (c.pc = "done" /\ c.op = "parse_time" /\ c.res.path \in StagePaths) =>
                   c.workers = 0 /\ c.work = Pending
            /\ (/\ c.pc = "done" /\ c.op = "find_timezone" /\ c.arg # NoneVal
                /\ NormalizeZoneInput(c.arg) \in AliasKeySet \cup CatalogSet) =>
                   /\ c.workers = 0 /\ c.work = Pending
                   /\ c.res.path \in {"alias_exact", "catalog_exact"}
            /\ (c.pc = "done" /\ c.workers = 1) =>
                   c.res.path \in {"fallback_time", "fallback_dated", "unparseable",
                                   "alias_fuzzy", "catalog_fuzzy", "no_match", "error"}

C22_Witness ==
    /\ calls[1].pc = "done" /\ calls[1].op = "parse_time"
    /\ calls[1].res.path = "month_day" /\ calls[1].workers = 0
    /\ calls[2].pc = "done" /\ calls[2].op = "find_timezone"
    /\ calls[2].res.path = "catalog_exact" /\ calls[2].workers = 0

\* what the call c returns when it runs alone with its clock reading and
\* the answer of its worker task
AloneOutcome(c) ==
    LET r == IF c.op = "parse_time"
             THEN ParseTimeSync(c.arg, c.zone, IF c.now.some THEN UtcOf(c.now) ELSE 0)
             ELSE FindTimezoneSync(c.arg)
    IN  IF r.kind # "await" THEN r ELSE AfterAwait(c, c.work)

\* C23: under every interleaving of the calls at their awaits, each call
\* returns what it returns when run alone with the same clock reading and
\* worker answer, and it returns, never raises, whatever faults the other
\* calls had.
C23_ConcurrentCallsIndependent ==
    \A t \in Tasks :
        calls[t].pc = "done" =>
            /\ calls[t].res.kind = "return"
            /\ calls[t].res = AloneOutcome(calls[t])

C23_Witness ==
    /\ calls[1].pc = "done" /\ calls[1].op = "parse_time"
    /\ calls[1].work.kind = "return"
    /\ calls[1].res.path = "fallback_time"
    /\ calls[2].op = "find_timezone"
    /\ calls[2].work.kind = "raise"
    /\ calls[2].pc \in {"resuming", "done"}

(***************************************************************************)
(* Properties of set_timezone                                              *)
(***************************************************************************)
\* C26: each user's stored timezone is absent or a name of the catalog; a
\* finished set_timezone whose input resolved to no zone has returned
\* (False, None, suggestions) and left the user's stored timezone as it
\* was, and one that returned success has returned (True, zone, []) with
\* zone, the zone the input resolved to, stored for the user.
C26_StoredPreference ==
    /\ \A u \in UserIds : users[u] = NoneVal \/ users[u] \in CatalogSet
    /\ ucall.pc = "done" =>
        LET zone == ucall.found.val[1]
            suggestions == ucall.found.val[2]
        IN  /\ zone = NoneVal =>
                   /\ ucall.result = <<FALSE, NoneVal, suggestions>>
                   /\ users[ucall.user_id] = ucall.before
            /\ ucall.result[1] =>
                   /\ ucall.result = <<TRUE, zone, <<>>>>
                   /\ zone \in CatalogSet
                   /\ users[ucall.user_id] = zone

C26_Witness ==
    /\ ucall.pc = "done"
    /\ ucall.result[1]
    /\ ucall.before # NoneVal
    /\ ucall.before # ucall.result[2]
    /\ users[ucall.user_id] = ucall.result[2]
    /\ ucall.found.path = "catalog_fuzzy"

====
